---- MODULE Spec2Model ----
(***************************************************************************)
(* Ledger, investment purchase, commission distribution and daily return   *)
(* accrual of the MetaX Coin backend.                                      *)
(*                                                                         *)
(* Money is counted in whole units of the smallest amount the Numeric      *)
(* columns store; a Numeric or Float column is the number it holds.  A     *)
(* quotient that is written back to a Numeric column is rounded to the     *)
(* nearest unit (RoundDiv).  Dates are day numbers; NoDate is a NULL date. *)
(* Every handler is one action: it runs from its first query to its commit *)
(* or rollback.  The purchase handler is also given step by step           *)
(* (BeginPurchase, LockWallet, FinishPurchase) for concurrent requests.    *)
(***************************************************************************)
EXTENDS Integers, Sequences, FiniteSets, TLC

\* ------------------------------------------------------------------ bounds
NUsers == 3
MaxDay == 4
MaxInvestments == 2
MaxTransactions == 1
MaxAdjust == 1
MaxPositions == 2
NProcs == 2
NPoolWallets == 2
MaxAssignments == 3
MaxNow == 60

\* ------------------------------------------------------- program constants
daily_limit == 50000
max_levels == 5
WithdrawalFee == 2
MinWithdrawal == 5
WALLET_ASSIGNMENT_DURATION == 30
MaxWithdrawal == 50000

NoDate == -1
NoUser == 0

Users == 1..NUsers
PackageIds == {1}
WalletTypes == {"available_fund", "total_gain", "level_bonus", "total_referral", "total_income"}
IncomeWalletTypes == {"total_gain", "level_bonus", "total_referral"}

\* models/referral.py, calculate_commission: default rate per level, in percent
DefaultRate(level) ==
    CASE level = 1 -> 10
      [] level = 2 -> 5
      [] level = 3 -> 3
      [] level = 4 -> 2
      [] level = 5 -> 1
      [] OTHER -> 0

VARIABLES
    today,          \* date.today()
    users,          \* users table: is_active, sponsor_id, total_earnings
    wallets,        \* wallets table, keyed by (user_id, wallet_type)
    packages,       \* investment_packages table
    investments,    \* user_investments table, in id order
    returns,        \* investment_returns table, in id order
    referrals,      \* referrals table: set of edges
    transactions,   \* deposit / withdrawal rows of the transactions table
    audit,          \* number of audit rows of the transactions table per (user, wallet_type)
    incomes,        \* number of rows of the incomes table per user
    adjusts,        \* number of admin balance adjustments made
    sessions,       \* the concurrent requests: pc, the rows the session has loaded, result
    rowLock,        \* per user, the session holding the lock on the available_fund row (0: free)
    opening,        \* history: each user's available_fund balance in the initial state
    last,           \* the last handler that ran, its inputs and its result
    now,            \* datetime.utcnow(), in minutes
    pooled_wallets, \* pooled_wallets table: status, last_used_at
    assignments,    \* wallet_assignments table, in id order
    monitor         \* the deposit monitor's run: the rows it selected and still locks

vars == <<today, users, wallets, packages, investments, returns, referrals,
          transactions, audit, incomes, adjusts, sessions, rowLock, opening, last,
          now, pooled_wallets, assignments, monitor>>

poolVars == <<now, pooled_wallets, assignments, monitor>>

persistent == <<users, wallets, packages, investments, returns, referrals,
                transactions, audit, incomes>>

\* ----------------------------------------------------------------- helpers
Min(a, b) == IF a <= b THEN a ELSE b
Max(a, b) == IF a >= b THEN a ELSE b

\* n / d rounded to the nearest unit, halves away from zero (d > 0)
RoundDiv(n, d) ==
    IF n >= 0 THEN (2 * n + d) \div (2 * d)
    ELSE -((2 * (-n) + d) \div (2 * d))

RECURSIVE SumSeq(_)
SumSeq(s) == IF s = <<>> THEN 0 ELSE Head(s) + SumSeq(Tail(s))

NoWallet == [exists |-> FALSE, balance |-> 0, locked_balance |-> 0]
NewWallet == [exists |-> TRUE, balance |-> 0, locked_balance |-> 0]

available_balance(w) == w.balance - w.locked_balance

\* The tables a handler writes, as one value that the handler's steps thread through.
Tables ==
    [w |-> wallets, inv |-> investments, ret |-> returns, aud |-> audit,
     inc |-> incomes, ref |-> referrals, usr |-> users]

LogAudit(t, u, wt) == [t EXCEPT !.aud[u][wt] = @ + 1]

\* Wallet.query.filter_by(...).first() followed by "create if missing"
EnsureWallet(t, u, wt) ==
    IF t.w[u][wt].exists THEN t ELSE [t EXCEPT !.w[u][wt] = NewWallet]

\* Wallet._update_total_income_wallet
update_total_income_wallet(t, u, amount) ==
    IF t.w[u]["total_income"].exists
    THEN [t EXCEPT !.w[u]["total_income"].balance = @ + amount]
    ELSE t

\* Wallet.add_balance (amount > 0; the callers below never pass amount <= 0)
add_balance(t, u, wt, amount) ==
    LET t1 == [t EXCEPT !.w[u][wt].balance = @ + amount]
        t2 == IF wt \in IncomeWalletTypes
              THEN update_total_income_wallet(t1, u, amount) ELSE t1
    IN  LogAudit(t2, u, wt)

\* Wallet.subtract_balance raises (amount > 0)
subtract_balance_raises(w, amount) ==
    amount <= 0 \/ available_balance(w) < amount

\* Wallet.subtract_balance, when it does not raise
subtract_balance(t, u, wt, amount) ==
    LogAudit([t EXCEPT !.w[u][wt].balance = @ - amount], u, wt)

\* Wallet.lock_balance raises
lock_balance_raises(w, amount) ==
    amount <= 0 \/ available_balance(w) < amount

\* Wallet.lock_balance, when it does not raise
lock_balance(t, u, wt, amount) ==
    [t EXCEPT !.w[u][wt].locked_balance = @ + amount]

\* Wallet.unlock_balance raises
unlock_balance_raises(w, amount) ==
    amount <= 0 \/ w.locked_balance < amount

\* Wallet.unlock_balance, when it does not raise
unlock_balance(t, u, wt, amount) ==
    [t EXCEPT !.w[u][wt].locked_balance = @ - amount]

\* Wallet.initialize_user_wallets
RECURSIVE InitWalletsOver(_, _, _)
InitWalletsOver(t, u, wts) ==
    IF wts = {} THEN t
    ELSE LET wt == CHOOSE x \in wts : TRUE
         IN  InitWalletsOver(EnsureWallet(t, u, wt), u, wts \ {wt})

initialize_user_wallets(t, u) == InitWalletsOver(t, u, WalletTypes)

\* ------------------------------------------------------ referral graph
Edge(referrer, referred, level) ==
    [referrer_id |-> referrer, referred_id |-> referred, level |-> level,
     is_active |-> TRUE, total_commission_earned |-> 0]

\* variant: the loop tests only the visited set, not the level
RECURSIVE ChainWalk_NoLevelBound(_, _, _, _, _)
ChainWalk_NoLevelBound(usr, current_sponsor_id, new_user_id, level, visited_sponsors) ==
    IF current_sponsor_id = NoUser \/ current_sponsor_id \in visited_sponsors
    THEN {}
    ELSE {Edge(current_sponsor_id, new_user_id, level)}
         \cup ChainWalk_NoLevelBound(usr,
                        IF current_sponsor_id \in DOMAIN usr
                        THEN usr[current_sponsor_id].sponsor_id ELSE NoUser,
                        new_user_id, level + 1,
                        visited_sponsors \cup {current_sponsor_id})

\* Referral.create_referral_chain: the while loop, from (current_sponsor_id, level, visited_sponsors)
RECURSIVE ChainWalk(_, _, _, _, _)
ChainWalk(usr, current_sponsor_id, new_user_id, level, visited_sponsors) ==
    IF current_sponsor_id = NoUser \/ level > max_levels
       \/ current_sponsor_id \in visited_sponsors
    THEN {}
    ELSE {Edge(current_sponsor_id, new_user_id, level)}
         \cup ChainWalk(usr,
                        IF current_sponsor_id \in DOMAIN usr
                        THEN usr[current_sponsor_id].sponsor_id ELSE NoUser,
                        new_user_id, level + 1,
                        visited_sponsors \cup {current_sponsor_id})

create_referral_chain(usr, sponsor_id, new_user_id) ==
    ChainWalk(usr, sponsor_id, new_user_id, 1, {})

\* Referral.calculate_commission with the default rates; the exact product
\* amount * rate, and the amount the Numeric columns keep of it
commission_exact100(investment_amount, level) == investment_amount * DefaultRate(level)
\* variant: the rate of the next level is applied
calculate_commission_NextLevel(investment_amount, level) ==
    RoundDiv(investment_amount * DefaultRate(level + 1), 100)

calculate_commission(investment_amount, level) ==
    RoundDiv(commission_exact100(investment_amount, level), 100)

\* variant: every commission goes to the level_bonus wallet
CommissionWallet_AlwaysLevelBonus(level) == "level_bonus"

CommissionWallet(level) == IF level = 1 THEN "total_referral" ELSE "level_bonus"

\* Referral.distribute_commissions: the body of the loop for one upline edge
PayCommission(t, e, investment_amount) ==
    LET commission_amount == calculate_commission(investment_amount, e.level)
        r == e.referrer_id
        wt == CommissionWallet(e.level)
    IN  IF commission_exact100(investment_amount, e.level) > 0 /\ t.usr[r].is_active
        THEN LET t1 == add_balance(EnsureWallet(t, r, wt), r, wt, commission_amount)
                 e2 == [e EXCEPT !.total_commission_earned = @ + commission_amount]
             IN  [t1 EXCEPT !.ref = (@ \ {e}) \cup {e2},
                            !.inc[r] = @ + 1,
                            !.usr[r].total_earnings = @ + commission_amount]
        ELSE t

RECURSIVE PayCommissions(_, _, _)
PayCommissions(t, edges, investment_amount) ==
    IF edges = {} THEN t
    ELSE LET e == CHOOSE x \in edges : \A y \in edges : x.level <= y.level
         IN  PayCommissions(PayCommission(t, e, investment_amount), edges \ {e},
                            investment_amount)

UplineEdges(ref, user_id) == {e \in ref : e.referred_id = user_id /\ e.is_active}

\* Referral.distribute_commissions
distribute_commissions(t, user_id, investment_amount) ==
    PayCommissions(t, UplineEdges(t.ref, user_id), investment_amount)

\* ------------------------------------------------------------ packages
\* InvestmentPackage.is_available_for_investment
is_available_for_investment(p, day) ==
    p.status = "active" /\ (p.end_date = NoDate \/ p.end_date >= day)

\* UserInvestment.expected_total_return, times 100 (exact) and as stored
expected_total_return100(inv, pk) ==
    inv.amount_invested * pk[inv.package_id].total_return_percentage
expected_total_return(inv, pk) == RoundDiv(expected_total_return100(inv, pk), 100)

\* UserInvestment.returns_remaining
returns_remaining(inv, pk) == Max(0, expected_total_return(inv, pk) - inv.total_returns_paid)

\* User.get_total_investment: the sum over the user's ACTIVE and MATURED positions
RECURSIVE get_total_investment(_, _)
get_total_investment(invs, user_id) ==
    IF invs = <<>> THEN 0
    ELSE (IF Head(invs).user_id = user_id /\ Head(invs).status \in {"ACTIVE", "MATURED"}
          THEN Head(invs).amount_invested ELSE 0)
         + get_total_investment(Tail(invs), user_id)

\* team/routes.py and dashboard get_rank_progression: the total_investment they
\* report is the stored column
reported_total_investment(usr, user_id) == usr[user_id].total_investment

\* ------------------------------------------------------------ purchase
\* purchase_investment: sum of today's purchases of the user
RECURSIVE TodayInvestments(_, _, _)
TodayInvestments(invs, user_id, day) ==
    IF invs = <<>> THEN 0
    ELSE (IF Head(invs).user_id = user_id /\ Head(invs).investment_date = day
          THEN Head(invs).amount_invested ELSE 0)
         + TodayInvestments(Tail(invs), user_id, day)

\* purchase_investment, lines 95-171: the checks made before the wallet row is read
PreLockCheck(t, pk, user_id, package_id, amount, day) ==
    IF amount <= 0 THEN "bad_amount"
    ELSE IF package_id \notin DOMAIN pk THEN "package_not_found"
    ELSE IF ~is_available_for_investment(pk[package_id], day) THEN "package_unavailable"
    ELSE IF amount < pk[package_id].min_amount THEN "below_min"
    ELSE IF pk[package_id].max_amount # 0 /\ amount > pk[package_id].max_amount
         THEN "above_max"
    ELSE IF ~t.usr[user_id].is_active THEN "inactive"
    ELSE "ok"

\* purchase_investment, lines 196-217: the checks made on the wallet row; wallet
\* is the available_fund row as the request's session holds it
PostLockCheck(t, user_id, amount, wallet, day) ==
    IF wallet.balance < amount THEN "insufficient"
    ELSE IF TodayInvestments(t.inv, user_id, day) + amount > daily_limit THEN "daily_limit"
    ELSE "ok"

\* purchase_investment, lines 95-217: all checks in their order; "ok" when all pass
PurchaseCheck(t, pk, user_id, package_id, amount, wallet, day) ==
    IF PreLockCheck(t, pk, user_id, package_id, amount, day) # "ok"
    THEN PreLockCheck(t, pk, user_id, package_id, amount, day)
    ELSE PostLockCheck(t, user_id, amount, wallet, day)

\* variant: returns start on the day of the purchase
NewInvestment_StartToday(pk, user_id, package_id, amount, day) ==
    [user_id |-> user_id, package_id |-> package_id, amount_invested |-> amount,
     investment_date |-> day,
     returns_start_date |-> day,
     maturity_date |-> day + pk[package_id].duration_days,
     total_returns_paid |-> 0, last_return_date |-> NoDate, status |-> "ACTIVE"]

NewInvestment(pk, user_id, package_id, amount, day) ==
    [user_id |-> user_id, package_id |-> package_id, amount_invested |-> amount,
     investment_date |-> day,
     returns_start_date |-> day + 1,
     maturity_date |-> (day + 1) + pk[package_id].duration_days,
     total_returns_paid |-> 0, last_return_date |-> NoDate, status |-> "ACTIVE"]

\* purchase_investment, lines 180-270, when every check passed: what the commit stores.
\* wallet is the available_fund row as the request's session holds it; the
\* session writes the balance it computed from that row.
PurchaseCommit(t, pk, user_id, package_id, amount, wallet, day) ==
    LET t1 == initialize_user_wallets(t, user_id)
        t2 == [t1 EXCEPT !.inv = Append(@, NewInvestment(pk, user_id, package_id, amount, day)),
                         !.w[user_id]["available_fund"].balance = wallet.balance - amount]
        t3 == LogAudit(t2, user_id, "available_fund")
    IN  distribute_commissions(t3, user_id, amount)

\* ------------------------------------------------------------- accrual
\* variant: the maturity day itself is still selected
Eligible_MaturityDayIncluded(inv, calculation_date) ==
    /\ inv.status = "ACTIVE"
    /\ inv.returns_start_date <= calculation_date
    /\ inv.maturity_date >= calculation_date
    /\ (inv.last_return_date = NoDate \/ inv.last_return_date < calculation_date)

\* variant: the filter forgets the position's last_return_date
Eligible_NoLastReturnDate(inv, calculation_date) ==
    /\ inv.status = "ACTIVE"
    /\ inv.returns_start_date <= calculation_date
    /\ inv.maturity_date > calculation_date

\* InvestmentService._get_eligible_investments: the filter, for one row
Eligible(inv, calculation_date) ==
    /\ inv.status = "ACTIVE"
    /\ inv.returns_start_date <= calculation_date
    /\ inv.maturity_date > calculation_date
    /\ (inv.last_return_date = NoDate \/ inv.last_return_date < calculation_date)

\* InvestmentService._get_eligible_investments: the ids selected
get_eligible_investments(invs, calculation_date) ==
    {i \in DOMAIN invs : Eligible(invs[i], calculation_date)}

\* InvestmentService._calculate_daily_return: is the value it returns > 0
daily_return_positive(inv, pk) ==
    LET p == pk[inv.package_id]
    IN  /\ p.duration_days > 0
        /\ p.total_return_percentage >= 0
        /\ expected_total_return100(inv, pk) > 0
        /\ expected_total_return(inv, pk) - inv.total_returns_paid > 0

\* InvestmentService._calculate_daily_return: the value, as the Numeric columns keep it
calculate_daily_return(inv, pk) ==
    LET p == pk[inv.package_id]
        daily_return == RoundDiv(expected_total_return100(inv, pk), 100 * p.duration_days)
        remaining_return == expected_total_return(inv, pk) - inv.total_returns_paid
    IN  IF p.duration_days <= 0 \/ p.total_return_percentage < 0 THEN 0
        ELSE Max(0, Min(daily_return, remaining_return))

\* InvestmentService._process_investment_return
process_investment_return(t, i, return_amount, return_date) ==
    LET u == t.inv[i].user_id
        t1 == add_balance(EnsureWallet(t, u, "total_gain"), u, "total_gain", return_amount)
    IN  [t1 EXCEPT !.inc[u] = @ + 1,
                   !.inv[i].total_returns_paid = @ + return_amount,
                   !.inv[i].last_return_date = return_date,
                   !.ret = Append(@, [investment_id |-> i, return_date |-> return_date,
                                      return_amount |-> return_amount])]

\* InvestmentService.calculate_daily_investment_returns: the loop over the selected ids
RECURSIVE AccrueOver(_, _, _, _)
AccrueOver(t, pk, ids, day) ==
    IF ids = {} THEN t
    ELSE LET i == CHOOSE x \in ids : \A y \in ids : x <= y
             t1 == IF daily_return_positive(t.inv[i], pk)
                   THEN process_investment_return(t, i, calculate_daily_return(t.inv[i], pk), day)
                   ELSE t
         IN  AccrueOver(t1, pk, ids \ {i}, day)

\* variant: the sweep takes only the positions whose maturity_date has passed
update_investment_statuses_AfterMaturityDay(t, day) ==
    [t EXCEPT !.inv = [i \in DOMAIN @ |->
        IF @[i].status = "ACTIVE" /\ @[i].maturity_date < day
        THEN [@[i] EXCEPT !.status = "MATURED"] ELSE @[i]]]

\* InvestmentService._update_investment_statuses
update_investment_statuses(t, day) ==
    [t EXCEPT !.inv = [i \in DOMAIN @ |->
        IF @[i].status = "ACTIVE" /\ @[i].maturity_date <= day
        THEN [@[i] EXCEPT !.status = "MATURED"] ELSE @[i]]]

\* InvestmentService.calculate_daily_investment_returns
calculate_daily_investment_returns(t, pk, day) ==
    update_investment_statuses(
        AccrueOver(t, pk, get_eligible_investments(t.inv, day), day), day)

\* db.session.rollback(): the session drops what is pending and shows the
\* committed tables again
rollback(committed, pending) == committed

\* the statements of the loop body at which the processing of a position raises:
\* _calculate_daily_return with an error of the computation ("calc") or with an
\* error of a statement sent to the store ("calc_storage"), add_balance,
\* create_bonus_income, db.session.commit
FaultPoints == {"calc", "calc_storage", "wallet", "income", "commit"}

\* InvestmentService._process_investment_return when the statement at `point`
\* raises: what the session holds pending at that moment, then the except clause
process_investment_return_raises(t, i, return_amount, return_date, point) ==
    LET u == t.inv[i].user_id
        created == EnsureWallet(t, u, "total_gain")
        pending == IF point = "wallet" THEN created
                   ELSE IF point = "income"
                        THEN add_balance(created, u, "total_gain", return_amount)
                   ELSE process_investment_return(t, i, return_amount, return_date)
    IN  rollback(t, pending)

\* InvestmentService.calculate_daily_investment_returns: the loop over the
\* selected ids when the processing of position `failed` raises at `point`.
\* The except clause of the loop (lines 57-59) logs and continues without a
\* rollback: after a storage error in _calculate_daily_return the transaction
\* of the session stays aborted, so every statement of the later positions
\* raises as well and none of them is credited.
RECURSIVE AccrueOverRaising(_, _, _, _, _, _)
AccrueOverRaising(t, pk, ids, day, failed, point) ==
    IF ids = {} THEN t
    ELSE LET i == CHOOSE x \in ids : \A y \in ids : x <= y
             t1 == IF i = failed /\ point \in {"calc", "calc_storage"} THEN t
                   ELSE IF ~daily_return_positive(t.inv[i], pk) THEN t
                   ELSE IF i = failed
                        THEN process_investment_return_raises(
                                 t, i, calculate_daily_return(t.inv[i], pk), day, point)
                   ELSE process_investment_return(t, i, calculate_daily_return(t.inv[i], pk), day)
         IN  IF i = failed /\ point = "calc_storage" THEN t
             ELSE AccrueOverRaising(t1, pk, ids \ {i}, day, failed, point)

\* InvestmentService.calculate_daily_investment_returns, a run in which the
\* processing of one selected position raises; with the transaction aborted
\* the query of the sweep raises too and the run ends in its outer except clause
calculate_daily_investment_returns_raising(t, pk, day, failed, point) ==
    LET t1 == AccrueOverRaising(t, pk, get_eligible_investments(t.inv, day), day, failed, point)
    IN  IF point = "calc_storage" THEN t1 ELSE update_investment_statuses(t1, day)

\* Referral.distribute_commissions when it raises while handling the edge of
\* failed_level: the edges before it are paid in full; "before_credit" raises
\* before wallet.add_balance of that edge, "after_credit" between
\* wallet.add_balance (line 213) and the commission tracking (line 221)
DistributionPoints == {"before_credit", "after_credit", "storage"}

RECURSIVE PayCommissionsUntil(_, _, _, _, _)
PayCommissionsUntil(t, edges, investment_amount, failed_level, point) ==
    IF edges = {} THEN t
    ELSE LET e == CHOOSE x \in edges : \A y \in edges : x.level <= y.level
             r == e.referrer_id
             wt == CommissionWallet(e.level)
         IN  IF e.level # failed_level
             THEN PayCommissionsUntil(PayCommission(t, e, investment_amount), edges \ {e},
                                      investment_amount, failed_level, point)
             ELSE IF point = "after_credit"
                     /\ commission_exact100(investment_amount, e.level) > 0
                     /\ t.usr[r].is_active
             THEN add_balance(EnsureWallet(t, r, wt), r, wt,
                              calculate_commission(investment_amount, e.level))
             ELSE t

\* purchase_investment, lines 225-285, when distribute_commissions raises: the
\* except clause of lines 263-267 logs, and line 270 commits what the session
\* holds. After an error of the store the commit raises as well, and the
\* except clause of lines 280-285 rolls the request back.
PurchaseCommitRaising(t, pk, user_id, package_id, amount, wallet, day, failed_level, point) ==
    LET t1 == initialize_user_wallets(t, user_id)
        t2 == [t1 EXCEPT !.inv = Append(@, NewInvestment(pk, user_id, package_id, amount, day)),
                         !.w[user_id]["available_fund"].balance = wallet.balance - amount]
        t3 == LogAudit(t2, user_id, "available_fund")
        t4 == PayCommissionsUntil(t3, UplineEdges(t3.ref, user_id), amount, failed_level, point)
    IN  IF point = "storage" THEN rollback(t, t4) ELSE t4

\* ------------------------------------------------------------- actions
Store(t) ==
    /\ wallets' = t.w
    /\ investments' = t.inv
    /\ returns' = t.ret
    /\ audit' = t.aud
    /\ incomes' = t.inc
    /\ referrals' = t.ref
    /\ users' = t.usr

Result(op, ok, reason, user, amount, id) ==
    [op |-> op, ok |-> ok, reason |-> reason, user |-> user, amount |-> amount, id |-> id]

\* variant: the daily ceiling is tested after the writes were committed, so a
\* request over the ceiling is answered as rejected with its writes stored
Purchase_LimitAfterCommit(user_id, package_id, amount) ==
    LET t0 == initialize_user_wallets(Tables, user_id)
        wallet == t0.w[user_id]["available_fund"]
        reason == PurchaseCheck(Tables, packages, user_id, package_id, amount, wallet, today)
    IN  /\ IF reason \in {"ok", "daily_limit"}
           THEN Store(PurchaseCommit(Tables, packages, user_id, package_id, amount, wallet, today))
           ELSE UNCHANGED <<wallets, investments, returns, audit, incomes, referrals, users>>
        /\ last' = Result("purchase", reason = "ok", reason, user_id, amount,
                          IF reason = "ok" THEN Len(investments) + 1 ELSE 0)
        /\ UNCHANGED <<poolVars, today, packages, transactions, adjusts, sessions, rowLock, opening>>

\* api/investments.py purchase_investment, one request from start to commit
Purchase(user_id, package_id, amount) ==
    LET t0 == initialize_user_wallets(Tables, user_id)
        wallet == t0.w[user_id]["available_fund"]
        reason == PurchaseCheck(Tables, packages, user_id, package_id, amount, wallet, today)
    IN  /\ IF reason = "ok"
           THEN Store(PurchaseCommit(Tables, packages, user_id, package_id, amount, wallet, today))
           ELSE UNCHANGED <<wallets, investments, returns, audit, incomes, referrals, users>>
        /\ last' = Result("purchase", reason = "ok", reason, user_id, amount,
                          IF reason = "ok" THEN Len(investments) + 1 ELSE 0)
        /\ UNCHANGED <<poolVars, today, packages, transactions, adjusts, sessions, rowLock, opening>>

\* api/investments.py purchase_investment, a request that passes every check
\* and whose commission distribution raises at the edge of failed_level
\* (failed_level 0: at the query for the upline edges, an error of the store)
PurchaseDistributionRaises(user_id, package_id, amount, failed_level, point) ==
    LET t0 == initialize_user_wallets(Tables, user_id)
        wallet == t0.w[user_id]["available_fund"]
        reason == PurchaseCheck(Tables, packages, user_id, package_id, amount, wallet, today)
        stored == point # "storage"
    IN  /\ reason = "ok"
        /\ \/ point = "storage" /\ failed_level = 0
           \/ point # "storage"
              /\ \E e \in UplineEdges(referrals, user_id) : e.level = failed_level
        /\ Store(PurchaseCommitRaising(Tables, packages, user_id, package_id, amount,
                                       wallet, today, failed_level, point))
        /\ last' = Result("purchase_distribution_raises", stored, point, user_id, amount,
                          IF stored THEN Len(investments) + 1 ELSE 0)
        /\ UNCHANGED <<poolVars, today, packages, transactions, adjusts, sessions, rowLock, opening>>

\* transactions/routes.py request_withdrawal
RequestWithdrawal(user_id, amount) ==
    LET w == wallets[user_id]["available_fund"]
        total_amount == amount + WithdrawalFee
        reason ==
            IF amount <= 0 THEN "bad_amount"
            ELSE IF amount < MinWithdrawal THEN "below_min"
            ELSE IF amount > MaxWithdrawal THEN "above_max"
            ELSE IF ~w.exists THEN "wallet_not_found"
            ELSE IF available_balance(w) < total_amount THEN "insufficient"
            ELSE "ok"
    IN  /\ Len(transactions) < MaxTransactions
        /\ IF reason = "ok"
           THEN /\ transactions' = Append(transactions,
                       [user_id |-> user_id, transaction_type |-> "WITHDRAWAL",
                        wallet_type |-> "available_fund", amount |-> amount,
                        fee |-> WithdrawalFee, status |-> "PENDING"])
                /\ Store(lock_balance(Tables, user_id, "available_fund", total_amount))
           ELSE UNCHANGED <<transactions, wallets, investments, returns, audit, incomes,
                            referrals, users>>
        /\ last' = Result("request_withdrawal", reason = "ok", reason, user_id, amount,
                          IF reason = "ok" THEN Len(transactions) + 1 ELSE 0)
        /\ UNCHANGED <<poolVars, today, packages, adjusts, sessions, rowLock, opening>>

\* Transaction._process_withdrawal raises
process_withdrawal_raises(t, txn) ==
    LET w == t.w[txn.user_id][txn.wallet_type]
    IN  \/ ~w.exists
        \/ available_balance(w) < txn.amount + txn.fee
        \/ subtract_balance_raises(w, txn.amount + txn.fee)

\* admin/routes.py approve_transaction with Transaction.approve
ApproveTransaction(id) ==
    LET txn == transactions[id]
        pending == txn.status = "PENDING"
        raises == pending /\ txn.transaction_type = "WITHDRAWAL"
                  /\ process_withdrawal_raises(Tables, txn)
        ok == pending /\ ~raises
    IN  /\ id \in DOMAIN transactions
        /\ IF ok
           THEN /\ transactions' = [transactions EXCEPT ![id].status = "COMPLETED"]
                /\ Store(IF txn.transaction_type = "WITHDRAWAL"
                         THEN subtract_balance(Tables, txn.user_id, txn.wallet_type,
                                               txn.amount + txn.fee)
                         ELSE add_balance(EnsureWallet(Tables, txn.user_id, txn.wallet_type),
                                          txn.user_id, txn.wallet_type, txn.amount))
           ELSE UNCHANGED <<transactions, wallets, investments, returns, audit, incomes,
                            referrals, users>>
        /\ last' = Result("approve", ok,
                          IF ok THEN "ok" ELSE IF raises THEN "error" ELSE "not_pending",
                          txn.user_id, txn.amount, id)
        /\ UNCHANGED <<poolVars, today, packages, adjusts, sessions, rowLock, opening>>

\* admin/routes.py reject_transaction with Transaction.reject and _unlock_withdrawal_funds
RejectTransaction(id) ==
    LET txn == transactions[id]
        w == wallets[txn.user_id][txn.wallet_type]
        pending == txn.status = "PENDING"
        unlocks == txn.transaction_type = "WITHDRAWAL" /\ w.exists
        raises == pending /\ unlocks /\ unlock_balance_raises(w, txn.amount + txn.fee)
        ok == pending /\ ~raises
    IN  /\ id \in DOMAIN transactions
        /\ IF ok
           THEN /\ transactions' = [transactions EXCEPT ![id].status = "REJECTED"]
                /\ Store(IF unlocks
                         THEN unlock_balance(Tables, txn.user_id, txn.wallet_type,
                                             txn.amount + txn.fee)
                         ELSE Tables)
           ELSE UNCHANGED <<transactions, wallets, investments, returns, audit, incomes,
                            referrals, users>>
        /\ last' = Result("reject", ok,
                          IF ok THEN "ok" ELSE IF raises THEN "error" ELSE "not_pending",
                          txn.user_id, txn.amount, id)
        /\ UNCHANGED <<poolVars, today, packages, adjusts, sessions, rowLock, opening>>

\* admin/web_routes.py api_approve_transaction: the status alone is written
ApiApproveTransaction(id) ==
    LET txn == transactions[id]
        ok == txn.status = "PENDING"
    IN  /\ id \in DOMAIN transactions
        /\ transactions' = IF ok THEN [transactions EXCEPT ![id].status = "COMPLETED"]
                           ELSE transactions
        /\ last' = Result("api_approve", ok, IF ok THEN "ok" ELSE "not_pending",
                          txn.user_id, txn.amount, id)
        /\ UNCHANGED <<poolVars, today, users, wallets, packages, investments, returns, referrals,
                       audit, incomes, adjusts, sessions, rowLock, opening>>

\* admin/web_routes.py api_reject_transaction: the status alone is written
ApiRejectTransaction(id) ==
    LET txn == transactions[id]
        ok == txn.status = "PENDING"
    IN  /\ id \in DOMAIN transactions
        /\ transactions' = IF ok THEN [transactions EXCEPT ![id].status = "FAILED"]
                           ELSE transactions
        /\ last' = Result("api_reject", ok, IF ok THEN "ok" ELSE "not_pending",
                          txn.user_id, txn.amount, id)
        /\ UNCHANGED <<poolVars, today, users, wallets, packages, investments, returns, referrals,
                       audit, incomes, adjusts, sessions, rowLock, opening>>

\* transactions/routes.py cancel_transaction with Transaction.cancel
CancelTransaction(user_id, id) ==
    LET txn == transactions[id]
        w == wallets[user_id][txn.wallet_type]
        found == txn.user_id = user_id /\ txn.status = "PENDING"
        withdrawal == txn.transaction_type = "WITHDRAWAL"
        raises == found /\ withdrawal /\ w.exists
                  /\ unlock_balance_raises(w, txn.amount + txn.fee)
        ok == found /\ withdrawal /\ ~raises
    IN  /\ id \in DOMAIN transactions
        /\ IF ok
           THEN /\ transactions' = [transactions EXCEPT ![id].status = "CANCELLED"]
                /\ Store(IF w.exists
                         THEN unlock_balance(Tables, user_id, txn.wallet_type,
                                             txn.amount + txn.fee)
                         ELSE Tables)
           ELSE UNCHANGED <<transactions, wallets, investments, returns, audit, incomes,
                            referrals, users>>
        /\ last' = Result("cancel", ok,
                          IF ok THEN "ok" ELSE IF raises THEN "error"
                          ELSE IF ~found THEN "not_found" ELSE "not_withdrawal",
                          user_id, txn.amount, id)
        /\ UNCHANGED <<poolVars, today, packages, adjusts, sessions, rowLock, opening>>

\* admin/routes.py update_user_wallets, for one wallet type of the request
UpdateUserWallets(user_id, wallet_type, new_balance) ==
    LET w == wallets[user_id][wallet_type]
        ok == new_balance >= 0
    IN  /\ adjusts < MaxAdjust
        /\ adjusts' = adjusts + 1
        /\ IF ok /\ w.exists
           THEN Store(LogAudit([Tables EXCEPT !.w[user_id][wallet_type].balance = new_balance],
                               user_id, wallet_type))
           ELSE UNCHANGED <<wallets, investments, returns, audit, incomes, referrals, users>>
        /\ last' = Result("update_user_wallets", ok, IF ok THEN "ok" ELSE "negative",
                          user_id, new_balance, 0)
        /\ UNCHANGED <<poolVars, today, packages, transactions, sessions, rowLock, opening>>

\* auth/routes.py register (lines 23-104), the field validations left out:
\* sponsor_code 0 is an empty code, a code that names no stored user is
\* answered 400 before anything is written; the new user gets the next id,
\* all wallets and the referral chain of the sponsor
Register(sponsor_code) ==
    LET sponsor_id == sponsor_code
        user_id == Cardinality(DOMAIN users) + 1
        grown(f, v) == [u \in DOMAIN f \cup {user_id} |-> IF u = user_id THEN v ELSE f[u]]
        usr == grown(users, [is_active |-> TRUE, sponsor_id |-> sponsor_id,
                             total_earnings |-> 0, total_investment |-> 0])
        chain == IF sponsor_id # NoUser
                 THEN create_referral_chain(usr, sponsor_id, user_id) ELSE {}
    IN  IF sponsor_code # NoUser /\ sponsor_code \notin DOMAIN users
        THEN /\ last' = Result("register", FALSE, "invalid_sponsor", NoUser, 0, 0)
             /\ UNCHANGED <<poolVars, today, users, wallets, packages, investments, returns,
                            referrals, transactions, audit, incomes, adjusts,
                            sessions, rowLock, opening>>
        ELSE /\ users' = usr
             /\ wallets' = grown(wallets, [wt \in WalletTypes |-> NewWallet])
             /\ referrals' = referrals \cup chain
             /\ audit' = grown(audit, [wt \in WalletTypes |-> 0])
             /\ incomes' = grown(incomes, 0)
             /\ rowLock' = grown(rowLock, 0)
             /\ opening' = grown(opening, 0)
             /\ last' = Result("register", TRUE, "ok", user_id, 0, sponsor_id)
             /\ UNCHANGED <<poolVars, today, packages, investments, returns, transactions,
                            adjusts, sessions>>

\* admin/web_routes.py user_detail: opening the page of a user creates the
\* wallets the user does not have
UserDetail(user_id) ==
    /\ Store(initialize_user_wallets(Tables, user_id))
    /\ last' = Result("user_detail", TRUE, "ok", user_id, 0, 0)
    /\ UNCHANGED <<poolVars, today, packages, transactions, adjusts, sessions, rowLock, opening>>

\* admin/web_routes.py api_toggle_user_status
ToggleUserStatus(user_id) ==
    /\ users' = [users EXCEPT ![user_id].is_active = ~@]
    /\ last' = Result("toggle_status", TRUE, "ok", user_id, 0, 0)
    /\ UNCHANGED <<poolVars, today, wallets, packages, investments, returns, referrals,
                   transactions, audit, incomes, adjusts, sessions, rowLock, opening>>

\* the name under which a settlement request with this disposition is recorded
SettleOp(settlement_option) ==
    IF settlement_option = "available_fund" THEN "settle_available_fund"
    ELSE IF settlement_option = "keep_invested" THEN "settle_keep_invested"
    ELSE "settle_other"

\* variant: the settlement does not look at the status of the position
SettleInvestment_AnyStatus(investment_id, settlement_option, settlement_fee_percent) ==
    LET inv == investments[investment_id]
        reason == IF settlement_fee_percent > 0 THEN "type_error"
                  ELSE IF settlement_option \notin {"available_fund", "keep_invested"}
                       THEN "invalid_option"
                  ELSE "ok"
        t1 == IF settlement_option = "available_fund"
              THEN [EnsureWallet(Tables, inv.user_id, "available_fund")
                        EXCEPT !.w[inv.user_id]["available_fund"].balance
                                   = @ + inv.amount_invested]
              ELSE Tables
    IN  /\ investment_id \in DOMAIN investments
        /\ IF reason = "ok"
           THEN Store([t1 EXCEPT !.inv[investment_id].status = "CANCELLED"])
           ELSE UNCHANGED <<wallets, investments, returns, audit, incomes, referrals, users>>
        /\ last' = Result(SettleOp(settlement_option), reason = "ok", reason, inv.user_id,
                          settlement_fee_percent, investment_id)
        /\ UNCHANGED <<poolVars, today, packages, transactions, adjusts, sessions, rowLock, opening>>

\* admin/investment_routes.py settle_investment with
\* InvestmentService.settle_matured_investment. The route hands the fee percent
\* over as float(form value), and amount_invested is a Numeric column, a
\* Decimal: for a fee percent > 0 the product principal_amount *
\* settlement_fee_percent (line 304) is Decimal * float, which raises TypeError;
\* the except clause rolls back and the settlement is answered as failed.
SettleInvestment(investment_id, settlement_option, settlement_fee_percent) ==
    LET inv == investments[investment_id]
        principal_amount == inv.amount_invested
        settlement_fee == 0
        net_principal == principal_amount - settlement_fee
        reason == IF inv.status # "MATURED" THEN "not_matured"
                  ELSE IF settlement_fee_percent > 0 THEN "type_error"
                  ELSE IF settlement_option \notin {"available_fund", "keep_invested"}
                       THEN "invalid_option"
                  ELSE "ok"
        t1 == IF settlement_option = "available_fund"
              THEN [EnsureWallet(Tables, inv.user_id, "available_fund")
                        EXCEPT !.w[inv.user_id]["available_fund"].balance = @ + net_principal]
              ELSE Tables
    IN  /\ investment_id \in DOMAIN investments
        /\ IF reason = "ok"
           THEN Store([t1 EXCEPT !.inv[investment_id].status = "CANCELLED"])
           ELSE UNCHANGED <<wallets, investments, returns, audit, incomes, referrals, users>>
        /\ last' = Result(SettleOp(settlement_option), reason = "ok", reason, inv.user_id,
                          settlement_fee_percent, investment_id)
        /\ UNCHANGED <<poolVars, today, packages, transactions, adjusts, sessions, rowLock, opening>>

\* variant: force-maturity does not look at the status of the position
ForceMature_AnyStatus(investment_id) ==
    LET inv == investments[investment_id]
    IN  /\ investment_id \in DOMAIN investments
        /\ investments' = [investments EXCEPT ![investment_id].status = "MATURED"]
        /\ investments' # investments
        /\ last' = Result("force_mature", TRUE, "ok", inv.user_id, 0, investment_id)
        /\ UNCHANGED <<poolVars, today, users, wallets, packages, returns, referrals, transactions,
                       audit, incomes, adjusts, sessions, rowLock, opening>>

\* InvestmentService.force_mature_investment
ForceMature(investment_id) ==
    LET inv == investments[investment_id]
        ok == inv.status = "ACTIVE"
    IN  /\ investment_id \in DOMAIN investments
        /\ investments' = IF ok THEN [investments EXCEPT ![investment_id].status = "MATURED"]
                          ELSE investments
        /\ last' = Result("force_mature", ok, IF ok THEN "ok" ELSE "not_active",
                          inv.user_id, 0, investment_id)
        /\ UNCHANGED <<poolVars, today, users, wallets, packages, returns, referrals, transactions,
                       audit, incomes, adjusts, sessions, rowLock, opening>>

\* InvestmentService.manual_distribute_returns
ManualDistribute(investment_id, amount) ==
    LET inv == investments[investment_id]
        reason == IF amount <= 0 THEN "bad_amount"
                  ELSE IF amount > returns_remaining(inv, packages) THEN "exceeds_remaining"
                  ELSE "ok"
    IN  /\ investment_id \in DOMAIN investments
        /\ IF reason = "ok"
           THEN Store(process_investment_return(Tables, investment_id, amount, today))
           ELSE UNCHANGED <<wallets, investments, returns, audit, incomes, referrals, users>>
        /\ last' = Result("manual_distribute", reason = "ok", reason, inv.user_id, amount,
                          investment_id)
        /\ UNCHANGED <<poolVars, today, packages, transactions, adjusts, sessions, rowLock, opening>>

\* InvestmentService.calculate_daily_investment_returns, one run (scheduler or admin);
\* last.id tells a run that directly follows another run (2) from a first run (1)
RunDailyReturns ==
    /\ Store(calculate_daily_investment_returns(Tables, packages, today))
    /\ last' = Result("daily_returns", TRUE, "ok", NoUser, 0,
                      IF last.op = "daily_returns" THEN 2 ELSE 1)
    /\ UNCHANGED <<poolVars, today, packages, transactions, adjusts, sessions, rowLock, opening>>

\* InvestmentService.calculate_daily_investment_returns, one run in which the
\* processing of the selected position failed_id raises at `point`; the run
\* itself still reports success
RunDailyReturnsRaising(failed_id, point) ==
    /\ failed_id \in get_eligible_investments(investments, today)
    /\ point \notin {"calc", "calc_storage"}
          => daily_return_positive(investments[failed_id], packages)
    /\ Store(calculate_daily_investment_returns_raising(Tables, packages, today, failed_id, point))
    /\ last' = Result("daily_returns_raising", point # "calc_storage", point, NoUser, 0,
                      failed_id)
    /\ UNCHANGED <<poolVars, today, packages, transactions, adjusts, sessions, rowLock, opening>>

\* admin/investment_routes.py edit_package (POST)
EditPackage(package_id, total_return_percentage, duration_days, status, end_date) ==
    /\ package_id \in DOMAIN packages
    /\ packages' = [packages EXCEPT
            ![package_id].total_return_percentage = total_return_percentage,
            ![package_id].duration_days = duration_days,
            ![package_id].status = status,
            ![package_id].end_date = end_date]
    /\ packages' # packages
    /\ last' = Result("edit_package", TRUE, "ok", NoUser, 0, package_id)
    /\ UNCHANGED <<poolVars, today, users, wallets, investments, returns, referrals, transactions,
                   audit, incomes, adjusts, sessions, rowLock, opening>>

\* the calendar: date.today() moves to the next day
AdvanceDay ==
    /\ today < MaxDay
    /\ today' = today + 1
    /\ last' = Result("advance_day", TRUE, "ok", NoUser, 0, 0)
    /\ UNCHANGED <<poolVars, users, wallets, packages, investments, returns, referrals, transactions,
                   audit, incomes, adjusts, sessions, rowLock, opening>>

\* -------------------------------------------------- concurrent purchases
Procs == 1..NProcs

IdleSession ==
    [pc |-> "idle", user_id |-> NoUser, package_id |-> 0, amount |-> 0,
     wallet |-> NoWallet, result |-> "none", id |-> 0, rows |-> <<>>]

\* purchase_investment lines 95-182: the checks made before the wallet row is
\* locked, and initialize_user_wallets, whose rows the session does not keep
BeginPurchase(p, user_id, package_id, amount) ==
    LET reason == PreLockCheck(Tables, packages, user_id, package_id, amount, today)
    IN  /\ sessions[p].pc = "idle"
        /\ sessions' = [sessions EXCEPT ![p] =
               [pc |-> IF reason = "ok" THEN "read" ELSE "done",
                user_id |-> user_id, package_id |-> package_id, amount |-> amount,
                wallet |-> NoWallet,
                result |-> IF reason = "ok" THEN "none" ELSE reason,
                id |-> 0, rows |-> <<>>]]
        /\ UNCHANGED <<poolVars, today, users, wallets, packages, investments, returns, referrals,
                       transactions, audit, incomes, adjusts, rowLock, opening, last>>

\* The row the SELECT ... FOR UPDATE of line 185-188 returns to the session
LockedRead(p, row) == IF row.exists THEN row ELSE NewWallet

\* variant: the row is read without FOR UPDATE, so the read does not wait
LockWallet_NoWait(p) ==
    /\ sessions[p].pc = "read"
    /\ rowLock' = [rowLock EXCEPT ![sessions[p].user_id] = p]
    /\ sessions' = [sessions EXCEPT
           ![p].pc = "locked",
           ![p].wallet = LockedRead(p, wallets[sessions[p].user_id]["available_fund"])]
    /\ UNCHANGED <<poolVars, today, users, wallets, packages, investments, returns, referrals,
                   transactions, audit, incomes, adjusts, opening, last>>

\* purchase_investment lines 185-188: SELECT ... FOR UPDATE waits for the row
\* lock and loads the row as last committed
LockWallet(p) ==
    /\ sessions[p].pc = "read"
    /\ rowLock[sessions[p].user_id] = 0
    /\ rowLock' = [rowLock EXCEPT ![sessions[p].user_id] = p]
    /\ sessions' = [sessions EXCEPT
           ![p].pc = "locked",
           ![p].wallet = LockedRead(p, wallets[sessions[p].user_id]["available_fund"])]
    /\ UNCHANGED <<poolVars, today, users, wallets, packages, investments, returns, referrals,
                   transactions, audit, incomes, adjusts, opening, last>>

\* purchase_investment lines 196-270: balance and daily-limit checks on the
\* session's row, then the writes and the commit (or the return without commit);
\* either way the transaction ends and the row lock is released
FinishPurchase(p) ==
    LET s == sessions[p]
        reason == PostLockCheck(Tables, s.user_id, s.amount, s.wallet, today)
    IN  /\ s.pc = "locked"
        /\ rowLock' = [rowLock EXCEPT ![s.user_id] = 0]
        /\ IF reason = "ok"
           THEN Store(PurchaseCommit(Tables, packages, s.user_id, s.package_id, s.amount,
                                     s.wallet, today))
           ELSE UNCHANGED <<wallets, investments, returns, audit, incomes, referrals, users>>
        /\ sessions' = [sessions EXCEPT ![p].pc = "done", ![p].result = reason]
        /\ UNCHANGED <<poolVars, today, packages, transactions, adjusts, opening, last>>

\* ------------------------------- concurrent requests on one transaction
\* approve_transaction, reject_transaction (admin/routes.py) and
\* cancel_transaction (transactions/routes.py) read the row without a lock
TransactionRequests == {"approve", "reject", "cancel"}

\* lines 304-309 / 339-344 / 404-415: the session loads the row and tests
\* its status; a request that fails the test is answered at once
BeginTransactionRequest(p, kind, id) ==
    LET txn == transactions[id]
        reason == IF txn.status # "PENDING" THEN "not_pending"
                  ELSE IF kind = "cancel" /\ txn.transaction_type # "WITHDRAWAL"
                  THEN "not_withdrawal"
                  ELSE "ok"
    IN  /\ sessions[p].pc = "idle"
        /\ id \in DOMAIN transactions
        /\ sessions' = [sessions EXCEPT ![p] =
               [pc |-> IF reason = "ok" THEN kind ELSE "done",
                user_id |-> txn.user_id, package_id |-> 0, amount |-> txn.amount,
                wallet |-> NoWallet,
                result |-> IF reason = "ok" THEN "none" ELSE reason,
                id |-> id, rows |-> <<txn>>]]
        /\ UNCHANGED <<poolVars, today, users, wallets, packages, investments, returns, referrals,
                       transactions, audit, incomes, adjusts, rowLock, opening, last>>

\* Transaction.approve / reject / cancel on the row the session holds, the
\* wallet loaded as last committed, and the commit, which writes the status
\* whatever the stored row has become; a raise rolls the request back
FinishTransactionRequest(p) ==
    LET s == sessions[p]
        txn == s.rows[1]
        w == wallets[txn.user_id][txn.wallet_type]
        total_amount == txn.amount + txn.fee
        withdrawal == txn.transaction_type = "WITHDRAWAL"
        raises == IF s.pc = "approve"
                  THEN withdrawal /\ process_withdrawal_raises(Tables, txn)
                  ELSE withdrawal /\ w.exists /\ unlock_balance_raises(w, total_amount)
        written == IF s.pc = "approve" THEN "COMPLETED"
                   ELSE IF s.pc = "reject" THEN "REJECTED" ELSE "CANCELLED"
    IN  /\ s.pc \in TransactionRequests
        /\ IF raises
           THEN UNCHANGED <<transactions, wallets, investments, returns, audit, incomes,
                            referrals, users>>
           ELSE /\ transactions' = [transactions EXCEPT ![s.id].status = written]
                /\ Store(IF s.pc = "approve"
                         THEN IF withdrawal
                              THEN subtract_balance(Tables, txn.user_id, txn.wallet_type,
                                                    total_amount)
                              ELSE add_balance(EnsureWallet(Tables, txn.user_id, txn.wallet_type),
                                               txn.user_id, txn.wallet_type, txn.amount)
                         ELSE IF withdrawal /\ w.exists
                              THEN unlock_balance(Tables, txn.user_id, txn.wallet_type,
                                                  total_amount)
                              ELSE Tables)
        /\ sessions' = [sessions EXCEPT ![p].pc = "done",
                                        ![p].result = IF raises THEN "error" ELSE "ok"]
        /\ last' = Result(s.pc, ~raises, IF raises THEN "error" ELSE "ok",
                          txn.user_id, txn.amount, s.id)
        /\ UNCHANGED <<poolVars, today, packages, adjusts, rowLock, opening>>

\* ------------------------------- concurrent settlements of one position
\* settle_matured_investment lines 296-304: the session loads the position
\* without a lock and tests its status; the fee of the form is 0. A request
\* that fails the test is answered at once
BeginSettle(p, investment_id, settlement_option) ==
    LET inv == investments[investment_id]
        reason == IF inv.status # "MATURED" THEN "not_matured"
                  ELSE IF settlement_option \notin {"available_fund", "keep_invested"}
                       THEN "invalid_option"
                  ELSE "ok"
    IN  /\ sessions[p].pc = "idle"
        /\ investment_id \in DOMAIN investments
        /\ sessions' = [sessions EXCEPT ![p] =
               [pc |-> IF reason = "ok" THEN SettleOp(settlement_option) ELSE "done",
                user_id |-> inv.user_id, package_id |-> inv.package_id,
                amount |-> inv.amount_invested, wallet |-> NoWallet,
                result |-> IF reason = "ok" THEN "none" ELSE reason,
                id |-> investment_id, rows |-> <<inv>>]]
        /\ UNCHANGED <<poolVars, today, users, wallets, packages, investments, returns, referrals,
                       transactions, audit, incomes, adjusts, rowLock, opening, last>>

\* settle_matured_investment lines 316-352: the wallet is loaded as last
\* committed, the principal of the session's row is added, the status is
\* written and the request commits
FinishSettle(p) ==
    LET s == sessions[p]
        inv == s.rows[1]
        net_principal == inv.amount_invested
        t1 == IF s.pc = "settle_available_fund"
              THEN [EnsureWallet(Tables, inv.user_id, "available_fund")
                        EXCEPT !.w[inv.user_id]["available_fund"].balance = @ + net_principal]
              ELSE Tables
    IN  /\ s.pc \in {"settle_available_fund", "settle_keep_invested"}
        /\ Store([t1 EXCEPT !.inv[s.id].status = "CANCELLED"])
        /\ sessions' = [sessions EXCEPT ![p].pc = "done", ![p].result = "ok"]
        /\ last' = Result(s.pc, TRUE, "ok", inv.user_id, 0, s.id)
        /\ UNCHANGED <<poolVars, today, packages, transactions, adjusts, rowLock, opening>>

\* --------------------------------- concurrent runs of the daily accrual
\* calculate_daily_investment_returns lines 30-35: the run (scheduler job or
\* admin route) selects the eligible positions; the session keeps the rows
BeginDailyReturns(p) ==
    /\ sessions[p].pc = "idle"
    /\ sessions' = [sessions EXCEPT ![p] =
           [IdleSession EXCEPT !.pc = "accrue", !.rows = investments]]
    /\ UNCHANGED <<poolVars, today, users, wallets, packages, investments, returns, referrals,
                   transactions, audit, incomes, adjusts, rowLock, opening, last>>

\* _process_investment_return in a session whose position row is still the
\* one the selection loaded: the amount and the new total_returns_paid come
\* from the loaded row, the wallet is loaded as last committed
process_investment_return_loaded(t, loaded, i, return_amount, return_date) ==
    LET t1 == process_investment_return(t, i, return_amount, return_date)
    IN  [t1 EXCEPT !.inv[i].total_returns_paid = loaded.total_returns_paid + return_amount]

\* calculate_daily_investment_returns lines 39-60 over the selected ids: the
\* selection is not repeated; the commit of a processed position expires the
\* session's rows, so the positions after it are read again
RECURSIVE AccrueOverSelected(_, _, _, _, _, _)
AccrueOverSelected(t, pk, rows, ids, day, expired) ==
    IF ids = {} THEN t
    ELSE LET i == CHOOSE x \in ids : \A y \in ids : x <= y
             inv == IF expired THEN t.inv[i] ELSE rows[i]
             pays == daily_return_positive(inv, pk)
             t1 == IF pays
                   THEN process_investment_return_loaded(
                            t, inv, i, calculate_daily_return(inv, pk), day)
                   ELSE t
         IN  AccrueOverSelected(t1, pk, rows, ids \ {i}, day, expired \/ pays)

\* calculate_daily_investment_returns lines 39-72: the loop over the selection
\* and the sweep; the run ends and the process can start another one
FinishDailyReturns(p) ==
    LET s == sessions[p]
        ids == get_eligible_investments(s.rows, today)
    IN  /\ s.pc = "accrue"
        /\ Store(update_investment_statuses(
                     AccrueOverSelected(Tables, packages, s.rows, ids, today, FALSE), today))
        /\ sessions' = [sessions EXCEPT ![p] = IdleSession]
        /\ last' = Result("daily_returns", TRUE, "ok", NoUser, 0, p)
        /\ UNCHANGED <<poolVars, today, packages, transactions, adjusts, rowLock, opening>>

\* --------------------------------------------------- deposit wallet pool
PoolWallets == 1..NPoolWallets

\* the scheduler jobs and the requests look at the clock a quarter of an hour apart
ClockStep == 15

IdleMonitor == [pc |-> "idle", todo |-> <<>>, locked |-> {}]

\* the pool as the admin created it: every wallet AVAILABLE and never used
InitPool ==
    /\ now = 0
    /\ pooled_wallets = [w \in PoolWallets |-> [status |-> "AVAILABLE", last_used_at |-> NoDate]]
    /\ assignments = <<>>
    /\ monitor = IdleMonitor

ActiveOn(asg, w) == {a \in DOMAIN asg : asg[a].is_active /\ asg[a].wallet_id = w}

ActiveOf(asg, u) == {a \in DOMAIN asg : asg[a].is_active /\ asg[a].user_id = u}

\* PooledWallet.get_available_wallet: the wallets the query can return first.
\* No session keeps a pooled_wallets row locked between steps; where a NULL
\* last_used_at sorts is the store's choice
get_available_wallet(pw) ==
    LET available == {w \in PoolWallets : pw[w].status = "AVAILABLE"}
    IN  {w \in available : \A v \in available :
            \/ pw[w].last_used_at = NoDate
            \/ pw[v].last_used_at = NoDate
            \/ pw[w].last_used_at <= pw[v].last_used_at}

\* WalletAssignment.cancel_assignment, complete_assignment and the writes of
\* _process_transaction lines 154-160: the row is_active = False, its wallet AVAILABLE
release_assignment(asg, pw, a) ==
    [asg |-> [asg EXCEPT ![a].is_active = FALSE],
     pw |-> [pw EXCEPT ![asg[a].wallet_id].status = "AVAILABLE"]]

\* request_deposit with a valid amount, assign_wallet_to_user
RequestDeposit(user_id) ==
    LET candidates == get_available_wallet(pooled_wallets)
        reason == IF ActiveOf(assignments, user_id) # {} THEN "already_active"
                  ELSE IF candidates = {} THEN "no_wallets"
                  ELSE "ok"
    IN  /\ Len(assignments) < MaxAssignments
        /\ IF reason = "ok"
           THEN \E w \in candidates :
                  /\ pooled_wallets' = [pooled_wallets EXCEPT ![w] =
                         [status |-> "IN_USE", last_used_at |-> now]]
                  /\ assignments' = Append(assignments,
                         [wallet_id |-> w, user_id |-> user_id,
                          expires_at |-> now + WALLET_ASSIGNMENT_DURATION,
                          is_active |-> TRUE])
           ELSE UNCHANGED <<pooled_wallets, assignments>>
        /\ last' = Result("request_deposit", reason = "ok", reason, user_id, 0,
                          IF reason = "ok" THEN Len(assignments) + 1 ELSE 0)
        /\ UNCHANGED <<now, monitor, today, users, wallets, packages, investments, returns,
                       referrals, transactions, audit, incomes, adjusts, sessions, rowLock,
                       opening>>

\* cancel_deposit_assignment; the UPDATE of a row the monitor has locked waits
CancelDepositAssignment(user_id) ==
    LET mine == ActiveOf(assignments, user_id)
        a == CHOOSE x \in mine : \A y \in mine : x <= y
        r == release_assignment(assignments, pooled_wallets, a)
    IN  /\ IF mine = {}
           THEN /\ UNCHANGED <<pooled_wallets, assignments>>
                /\ last' = Result("cancel_deposit", FALSE, "no_assignment", user_id, 0, 0)
           ELSE /\ a \notin monitor.locked
                /\ assignments' = r.asg
                /\ pooled_wallets' = r.pw
                /\ last' = Result("cancel_deposit", TRUE, "ok", user_id, 0, a)
        /\ UNCHANGED <<now, monitor, today, users, wallets, packages, investments, returns,
                       referrals, transactions, audit, incomes, adjusts, sessions, rowLock,
                       opening>>

\* WalletAssignment.cleanup_expired_assignments, lines 266-272: the rows selected
ExpiredAssignments(asg, t) == {a \in DOMAIN asg : asg[a].is_active /\ asg[a].expires_at < t}

\* variant: the clean-up releases the expired assignments only
cleanup_expired_assignments_ExpiredOnly(asg, pw, t) ==
    LET expired == ExpiredAssignments(asg, t)
    IN  [asg |-> [a \in DOMAIN asg |->
                    IF a \in expired THEN [asg[a] EXCEPT !.is_active = FALSE] ELSE asg[a]],
         pw |-> [w \in PoolWallets |->
                    IF \E a \in expired : asg[a].wallet_id = w
                    THEN [pw[w] EXCEPT !.status = "AVAILABLE"] ELSE pw[w]],
         cleaned_count |-> Cardinality(expired), stuck_count |-> 0]

\* WalletAssignment.cleanup_expired_assignments: the expired assignments, then
\* the wallets IN_USE without an active assignment
cleanup_expired_assignments(asg, pw, t) ==
    LET expired == ExpiredAssignments(asg, t)
        asg1 == [a \in DOMAIN asg |->
                    IF a \in expired THEN [asg[a] EXCEPT !.is_active = FALSE] ELSE asg[a]]
        pw1 == [w \in PoolWallets |->
                    IF \E a \in expired : asg[a].wallet_id = w
                    THEN [pw[w] EXCEPT !.status = "AVAILABLE"] ELSE pw[w]]
        stuck_wallets == {w \in PoolWallets :
                            pw1[w].status = "IN_USE" /\ ActiveOn(asg1, w) = {}}
    IN  [asg |-> asg1,
         pw |-> [w \in PoolWallets |->
                    IF w \in stuck_wallets THEN [pw1[w] EXCEPT !.status = "AVAILABLE"]
                    ELSE pw1[w]],
         cleaned_count |-> Cardinality(expired) + Cardinality(stuck_wallets),
         stuck_count |-> Cardinality(stuck_wallets)]

\* services/wallet_pool.py cleanup_expired_assignments, the scheduler job; its
\* SELECT ... FOR UPDATE waits for the rows the monitor has locked. last.amount
\* is the count the job logs, last.id the number of stuck wallets among it
CleanupExpiredAssignments ==
    LET r == cleanup_expired_assignments(assignments, pooled_wallets, now)
    IN  /\ ExpiredAssignments(assignments, now) \cap monitor.locked = {}
        /\ assignments' = r.asg
        /\ pooled_wallets' = r.pw
        /\ last' = Result("cleanup_expired_assignments", TRUE, "ok", NoUser,
                          r.cleaned_count, r.stuck_count)
        /\ UNCHANGED <<now, monitor, today, users, wallets, packages, investments, returns,
                       referrals, transactions, audit, incomes, adjusts, sessions, rowLock,
                       opening>>

\* monitor_active_assignments lines 48-52: the active assignments are selected
\* FOR UPDATE; the run keeps the list and the row locks
MonitorStart ==
    LET active == {a \in DOMAIN assignments : assignments[a].is_active}
        SortedIds[n \in 0..Len(assignments)] ==
            IF n = 0 THEN <<>>
            ELSE IF n \in active THEN Append(SortedIds[n - 1], n) ELSE SortedIds[n - 1]
    IN  /\ monitor.pc = "idle"
        /\ active # {}
        /\ monitor' = [pc |-> "loop", todo |-> SortedIds[Len(assignments)], locked |-> active]
        /\ last' = Result("monitor_start", TRUE, "ok", NoUser, 0, 0)
        /\ UNCHANGED <<now, pooled_wallets, assignments, today, users, wallets, packages,
                       investments, returns, referrals, transactions, audit, incomes, adjusts,
                       sessions, rowLock, opening>>

\* monitor_active_assignments lines 55-59 for the next assignment of the list.
\* _check_assignment calls _get_blockchain_transactions with one argument too
\* many and logs the TypeError. Past expires_at, _handle_expired_assignment
\* runs without a test of is_active: the deposit of `amount` found in the
\* window (0: none) becomes a PENDING transaction, the assignment is released
\* and the commit ends the run's row locks. A run that ends without a commit
\* gives its locks back with its session
MonitorStep(amount) ==
    LET a == Head(monitor.todo)
        rest == Tail(monitor.todo)
        r == release_assignment(assignments, pooled_wallets, a)
        expired == now > assignments[a].expires_at
    IN  /\ monitor.pc = "loop"
        /\ IF expired
           THEN /\ assignments' = r.asg
                /\ pooled_wallets' = r.pw
                /\ IF amount > 0
                   THEN /\ Len(transactions) < MaxTransactions
                        /\ transactions' = Append(transactions,
                              [user_id |-> assignments[a].user_id,
                               transaction_type |-> "DEPOSIT",
                               wallet_type |-> "available_fund", amount |-> amount,
                               fee |-> 0, status |-> "PENDING"])
                   ELSE UNCHANGED transactions
                /\ monitor' = [pc |-> IF rest = <<>> THEN "idle" ELSE "loop",
                               todo |-> rest, locked |-> {}]
           ELSE /\ amount = 0
                /\ UNCHANGED <<assignments, pooled_wallets, transactions>>
                /\ monitor' = IF rest = <<>> THEN IdleMonitor
                              ELSE [monitor EXCEPT !.todo = rest]
        /\ last' = Result("monitor_step", TRUE, IF expired THEN "expired" ELSE "waiting",
                          assignments[a].user_id, amount, a)
        /\ UNCHANGED <<now, today, users, wallets, packages, investments, returns, referrals,
                       audit, incomes, adjusts, sessions, rowLock, opening>>

\* admin/routes.py update_pooled_wallet with a status in the request
UpdatePooledWallet(wallet_id, status) ==
    /\ pooled_wallets' = [pooled_wallets EXCEPT ![wallet_id].status = status]
    /\ last' = Result("update_pooled_wallet", TRUE, "ok", NoUser, 0, wallet_id)
    /\ UNCHANGED <<now, assignments, monitor, today, users, wallets, packages, investments,
                   returns, referrals, transactions, audit, incomes, adjusts, sessions,
                   rowLock, opening>>

\* datetime.utcnow() moves on
Tick ==
    /\ now + ClockStep <= MaxNow
    /\ now' = now + ClockStep
    /\ last' = Result("tick", TRUE, "ok", NoUser, 0, 0)
    /\ UNCHANGED <<pooled_wallets, assignments, monitor, today, users, wallets, packages,
                   investments, returns, referrals, transactions, audit, incomes, adjusts,
                   sessions, rowLock, opening>>

\* ------------------------------------------------- initial states, inputs
\* the package of the purchase scenario, scaled: min, max, total return %, duration
InitPackage ==
    [status |-> "active", min_amount |-> 100, max_amount |-> 30000,
     total_return_percentage |-> 10, duration_days |-> 3, end_date |-> NoDate]

\* auth/routes.py register: user u is sponsored by user u - 1; every user has
\* all wallets and the referral edges of create_referral_chain
\* total_investment is the column User.total_investment (default 0), which no
\* handler writes
InitUsers ==
    [u \in Users |-> [is_active |-> TRUE, sponsor_id |-> u - 1, total_earnings |-> 0,
                      total_investment |-> 0]]

InitReferrals ==
    UNION {create_referral_chain(InitUsers, InitUsers[u].sponsor_id, u) : u \in Users}

\* funds is the available_fund balance each user has deposited so far
InitWith(funds) ==
    /\ today = 0
    /\ users = InitUsers
    /\ wallets = [u \in Users |-> [wt \in WalletTypes |->
                     IF wt = "available_fund" THEN [NewWallet EXCEPT !.balance = funds[u]]
                     ELSE NewWallet]]
    /\ packages = [p \in PackageIds |-> InitPackage]
    /\ investments = <<>>
    /\ returns = <<>>
    /\ referrals = InitReferrals
    /\ transactions = <<>>
    /\ audit = [u \in Users |-> [wt \in WalletTypes |->
                     IF wt = "available_fund" /\ funds[u] > 0 THEN 1 ELSE 0]]
    /\ incomes = [u \in Users |-> 0]
    /\ adjusts = 0
    /\ sessions = [p \in Procs |-> IdleSession]
    /\ rowLock = [u \in Users |-> 0]
    /\ opening = funds
    /\ last = Result("init", TRUE, "ok", NoUser, 0, 0)
    /\ InitPool

PurchaseAmounts == {0, 50, 100, 30000, 40000}
PurchasePackages == {1, 2}
WithdrawAmounts == {50}
AdjustBalances == {0}
FeePercents == {0, 2, 150}
SettlementOptions == {"available_fund", "keep_invested", "other"}

\* ------------------------------------- Spec: the ledger of one user's wallet
LedgerUsers == {1}
LedgerFunds == {100, 60000}

Init == \E f \in LedgerFunds : InitWith([u \in Users |-> IF u \in LedgerUsers THEN f ELSE 0])

Next ==
    \/ \E u \in LedgerUsers, a \in {100} : Len(investments) < MaxInvestments /\ Purchase(u, 1, a)
    \/ \E u \in LedgerUsers, a \in WithdrawAmounts : RequestWithdrawal(u, a)
    \/ \E id \in DOMAIN transactions : ApproveTransaction(id)
    \/ \E id \in DOMAIN transactions : RejectTransaction(id)
    \/ \E u \in LedgerUsers, id \in DOMAIN transactions : CancelTransaction(u, id)
    \/ \E u \in LedgerUsers, b \in AdjustBalances : UpdateUserWallets(u, "available_fund", b)
    \/ \E i \in DOMAIN investments : ForceMature(i)
    \/ \E i \in DOMAIN investments, o \in SettlementOptions, f \in FeePercents :
           SettleInvestment(i, o, f)

Spec == Init /\ [][Next]_vars

\* ------------------------- SpecPurchase: purchases, validation, commissions
\* user 1 has deposited 100, every other user 60000
PurchaseFunds == [u \in Users |-> IF u = 1 THEN 100 ELSE 60000]
Purchasers == {1, NUsers}

InitPurchase == InitWith(PurchaseFunds)

NextPurchase ==
    \/ \E u \in Purchasers, pid \in PurchasePackages, a \in PurchaseAmounts :
           Len(investments) < MaxInvestments /\ Purchase(u, pid, a)
    \/ \E u \in Users : ToggleUserStatus(u)
    \/ \E st \in {"active", "cancelled"} :
           EditPackage(1, packages[1].total_return_percentage, packages[1].duration_days,
                       st, NoDate)

SpecPurchase == InitPurchase /\ [][NextPurchase]_vars

\* ------------------- SpecAccrual: positions, daily accrual, admin overrides
AccrualUsers == {1}
AccrualAmounts == {100}
ManualAmounts == {4}
PctChoices == {10, 5}
DurChoices == {3}

InitAccrual == InitWith([u \in Users |-> IF u \in AccrualUsers THEN 200 ELSE 0])

NextAccrual ==
    \/ \E u \in AccrualUsers, a \in AccrualAmounts :
           Len(investments) < MaxPositions /\ Purchase(u, 1, a)
    \/ RunDailyReturns
    \/ \E i \in DOMAIN investments, a \in ManualAmounts : ManualDistribute(i, a)
    \/ \E pct \in PctChoices, d \in DurChoices : EditPackage(1, pct, d, "active", NoDate)
    \/ AdvanceDay

SpecAccrual == InitAccrual /\ [][NextAccrual]_vars

\* ---- SpecTerm: positions that only the daily accrual credits, force-maturity
TermAmounts == {100, 110, 30000}

InitTerm == InitWith([u \in Users |-> IF u \in AccrualUsers THEN 60000 ELSE 0])

NextTerm ==
    \/ \E u \in AccrualUsers, a \in TermAmounts : Len(investments) < MaxInvestments /\ Purchase(u, 1, a)
    \/ RunDailyReturns
    \/ \E i \in DOMAIN investments : ForceMature(i)
    \/ AdvanceDay

SpecTerm == InitTerm /\ [][NextTerm]_vars

\* ------------------- SpecConc: purchase requests running at the same time
ConcUsers == {1, 2}
ConcFunds == {100, 200}
ConcAmounts == {50, 100}

InitConc == \E f \in ConcFunds : InitWith([u \in Users |-> IF u \in ConcUsers THEN f ELSE 0])

NextConc ==
    \/ \E p \in Procs, u \in ConcUsers, a \in ConcAmounts : BeginPurchase(p, u, 1, a)
    \/ \E p \in Procs : LockWallet(p)
    \/ \E p \in Procs : FinishPurchase(p)

SpecConc == InitConc /\ [][NextConc]_vars

\* ------------------------------------- accrual runs in which a position fails
FaultUsers == {1, 2}
FaultAmounts == {100, 110}

InitFault == InitWith([u \in Users |-> IF u \in FaultUsers THEN 200 ELSE 0])

NextFault ==
    \/ \E u \in FaultUsers, a \in FaultAmounts :
           Len(investments) < MaxPositions /\ Purchase(u, 1, a)
    \/ RunDailyReturns
    \/ \E i \in DOMAIN investments, point \in FaultPoints : RunDailyReturnsRaising(i, point)
    \/ AdvanceDay

SpecFault == InitFault /\ [][NextFault]_vars

\* ------------------------------------------------- maturity and settlement
SettleUsers == {1}
SettleAmounts == {100, 200}
SettleFees == {0, 2}

InitSettle == InitWith([u \in Users |-> IF u \in SettleUsers THEN 60000 ELSE 0])

NextSettle ==
    \/ \E u \in SettleUsers, a \in SettleAmounts :
           Len(investments) < MaxPositions /\ Purchase(u, 1, a)
    \/ RunDailyReturns
    \/ \E i \in DOMAIN investments : ForceMature(i)
    \/ \E i \in DOMAIN investments, o \in SettlementOptions, f \in SettleFees :
           SettleInvestment(i, o, f)
    \/ AdvanceDay

SpecSettle == InitSettle /\ [][NextSettle]_vars

\* ------------- SpecChain: registration over every stored sponsor configuration
\* max_levels + 1 stored users, so that a chain can be longer than max_levels;
\* each stored sponsor_id is empty or names any stored user, cycles included
ChainUsers == 1..(max_levels + 1)
SponsorConfigs == [ChainUsers -> {NoUser} \cup ChainUsers]
SponsorCodes == {NoUser} \cup ChainUsers \cup {max_levels + 3}

InitChain ==
    \E cfg \in SponsorConfigs :
        /\ today = 0
        /\ users = [u \in ChainUsers |-> [is_active |-> TRUE, sponsor_id |-> cfg[u],
                                          total_earnings |-> 0, total_investment |-> 0]]
        /\ wallets = [u \in ChainUsers |-> [wt \in WalletTypes |-> NewWallet]]
        /\ packages = [p \in PackageIds |-> InitPackage]
        /\ investments = <<>>
        /\ returns = <<>>
        /\ referrals = {}
        /\ transactions = <<>>
        /\ audit = [u \in ChainUsers |-> [wt \in WalletTypes |-> 0]]
        /\ incomes = [u \in ChainUsers |-> 0]
        /\ adjusts = 0
        /\ sessions = [p \in Procs |-> IdleSession]
        /\ rowLock = [u \in ChainUsers |-> 0]
        /\ opening = [u \in ChainUsers |-> 0]
        /\ last = Result("init", TRUE, "ok", NoUser, 0, 0)
        /\ InitPool

NextChain ==
    \E c \in SponsorCodes : Cardinality(DOMAIN users) = max_levels + 1 /\ Register(c)

SpecChain == InitChain /\ [][NextChain]_vars

\* ------------- SpecPurchaseFault: purchases whose commission distribution raises
InitPurchaseFault == InitWith(PurchaseFunds)

NextPurchaseFault ==
    \/ \E u \in Purchasers, a \in FaultAmounts :
           Len(investments) < MaxInvestments /\ Purchase(u, 1, a)
    \/ \E u \in Purchasers, a \in FaultAmounts, l \in 0..max_levels, p \in DistributionPoints :
           Len(investments) < MaxInvestments /\ PurchaseDistributionRaises(u, 1, a, l, p)
    \/ \E u \in Users : ToggleUserStatus(u)

SpecPurchaseFault == InitPurchaseFault /\ [][NextPurchaseFault]_vars

\* ------------- SpecIncome: income credits to a user whose wallets are created lazily
\* user 1 is the account of create_admin.py (lines 52-66), stored without
\* wallets; the other users registered under it and have deposited 60000
AdminUsers == {1}
IncomeBuyers == Users \ AdminUsers

InitIncome ==
    /\ today = 0
    /\ users = InitUsers
    /\ wallets = [u \in Users |-> [wt \in WalletTypes |->
                     IF u \in AdminUsers THEN NoWallet
                     ELSE IF wt = "available_fund" THEN [NewWallet EXCEPT !.balance = 60000]
                     ELSE NewWallet]]
    /\ packages = [p \in PackageIds |-> InitPackage]
    /\ investments = <<>>
    /\ returns = <<>>
    /\ referrals = InitReferrals
    /\ transactions = <<>>
    /\ audit = [u \in Users |-> [wt \in WalletTypes |->
                     IF wt = "available_fund" /\ u \notin AdminUsers THEN 1 ELSE 0]]
    /\ incomes = [u \in Users |-> 0]
    /\ adjusts = 0
    /\ sessions = [p \in Procs |-> IdleSession]
    /\ rowLock = [u \in Users |-> 0]
    /\ opening = [u \in Users |-> IF u \in AdminUsers THEN 0 ELSE 60000]
    /\ last = Result("init", TRUE, "ok", NoUser, 0, 0)
    /\ InitPool

NextIncome ==
    \/ \E u \in IncomeBuyers, a \in AccrualAmounts :
           Len(investments) < MaxPositions /\ Purchase(u, 1, a)
    \/ \E u \in AdminUsers : UserDetail(u)
    \/ RunDailyReturns
    \/ AdvanceDay

SpecIncome == InitIncome /\ [][NextIncome]_vars

\* ------------- SpecWithdraw: withdrawal requests and every way they leave PENDING
WithdrawUsers == {1, 2}
RequestAmounts == {0, 50, 100}

InitWithdraw == \E f \in LedgerFunds : InitWith([u \in Users |-> IF u \in WithdrawUsers THEN f ELSE 0])

NextWithdraw ==
    \/ \E u \in WithdrawUsers, a \in RequestAmounts : RequestWithdrawal(u, a)
    \/ \E id \in DOMAIN transactions : ApproveTransaction(id)
    \/ \E id \in DOMAIN transactions : RejectTransaction(id)
    \/ \E u \in WithdrawUsers, id \in DOMAIN transactions : CancelTransaction(u, id)
    \/ \E id \in DOMAIN transactions : ApiApproveTransaction(id)
    \/ \E id \in DOMAIN transactions : ApiRejectTransaction(id)

SpecWithdraw == InitWithdraw /\ [][NextWithdraw]_vars

\* ------------- SpecTxnConc: approve, reject and cancel requests in parallel
\* user 1 holds 200; the transactions table is empty or holds the PENDING
\* deposit that DepositMonitor._process_transaction stored
TxnConcUsers == {1}
DetectedDeposits ==
    {<<>>} \cup {<<[user_id |-> 1, transaction_type |-> "DEPOSIT",
                    wallet_type |-> "available_fund", amount |-> a, fee |-> 0,
                    status |-> "PENDING"]>> : a \in RequestAmounts \ {0}}

InitTxnConc ==
    /\ today = 0
    /\ users = InitUsers
    /\ wallets = [u \in Users |-> [wt \in WalletTypes |->
                     IF wt = "available_fund" /\ u \in TxnConcUsers
                     THEN [NewWallet EXCEPT !.balance = 200] ELSE NewWallet]]
    /\ packages = [p \in PackageIds |-> InitPackage]
    /\ investments = <<>>
    /\ returns = <<>>
    /\ referrals = InitReferrals
    /\ transactions \in DetectedDeposits
    /\ audit = [u \in Users |-> [wt \in WalletTypes |->
                     IF wt = "available_fund" /\ u \in TxnConcUsers THEN 1 ELSE 0]]
    /\ incomes = [u \in Users |-> 0]
    /\ adjusts = 0
    /\ sessions = [p \in Procs |-> IdleSession]
    /\ rowLock = [u \in Users |-> 0]
    /\ opening = [u \in Users |-> IF u \in TxnConcUsers THEN 200 ELSE 0]
    /\ last = Result("init", TRUE, "ok", NoUser, 0, 0)
    /\ InitPool

NextTxnConc ==
    \/ \E u \in TxnConcUsers, a \in WithdrawAmounts : RequestWithdrawal(u, a)
    \/ \E p \in Procs, k \in TransactionRequests, id \in DOMAIN transactions :
           BeginTransactionRequest(p, k, id)
    \/ \E p \in Procs : FinishTransactionRequest(p)

SpecTxnConc == InitTxnConc /\ [][NextTxnConc]_vars

\* ------------- SpecSettleConc: settlement requests in parallel
InitSettleConc == InitWith([u \in Users |-> IF u \in SettleUsers THEN 60000 ELSE 0])

NextSettleConc ==
    \/ \E u \in SettleUsers, a \in SettleAmounts :
           Len(investments) < MaxPositions /\ Purchase(u, 1, a)
    \/ \E i \in DOMAIN investments : ForceMature(i)
    \/ \E p \in Procs, i \in DOMAIN investments, o \in SettlementOptions : BeginSettle(p, i, o)
    \/ \E p \in Procs : FinishSettle(p)

SpecSettleConc == InitSettleConc /\ [][NextSettleConc]_vars

\* ------------- SpecAccrualConc: the scheduler job and the admin route run
\* the daily accrual at the same time; the date changes between runs
InitAccrualConc == InitWith([u \in Users |-> IF u \in AccrualUsers THEN 60000 ELSE 0])

NextAccrualConc ==
    \/ \E u \in AccrualUsers, a \in TermAmounts :
           Len(investments) < MaxPositions /\ Purchase(u, 1, a)
    \/ \E p \in Procs : BeginDailyReturns(p)
    \/ \E p \in Procs : FinishDailyReturns(p)
    \/ (\A p \in Procs : sessions[p].pc # "accrue") /\ AdvanceDay

SpecAccrualConc == InitAccrualConc /\ [][NextAccrualConc]_vars

\* ------------- SpecPool: deposit requests, the monitor, the clean-up job and
\* user cancellations on a pool of NPoolWallets wallets
DetectedAmounts == {0, 50}

InitDeposit == InitWith([u \in Users |-> 0])

NextPool ==
    \/ \E u \in Users : RequestDeposit(u)
    \/ \E u \in Users : CancelDepositAssignment(u)
    \/ CleanupExpiredAssignments
    \/ MonitorStart
    \/ \E d \in DetectedAmounts : MonitorStep(d)
    \/ Tick

SpecPool == InitDeposit /\ [][NextPool]_vars

\* ------------- SpecPoolAdmin: the pool with the admin's wallet status updates;
\* the monitor finds no deposit
AdminStatuses == {"AVAILABLE", "IN_USE"}

CleanupUsers == {1, 2}

NextPoolAdmin ==
    \/ \E u \in CleanupUsers : RequestDeposit(u)
    \/ \E u \in CleanupUsers : CancelDepositAssignment(u)
    \/ CleanupExpiredAssignments
    \/ MonitorStart
    \/ MonitorStep(0)
    \/ Tick
    \/ \E w \in PoolWallets, s \in AdminStatuses : UpdatePooledWallet(w, s)

SpecPoolAdmin == InitDeposit /\ [][NextPoolAdmin]_vars

\* =================================================================== claims
UserCommissionBalance(w, r) ==
    w[r]["total_referral"].balance + w[r]["level_bonus"].balance

RECURSIVE SumFun(_, _)
SumFun(f, S) ==
    IF S = {} THEN 0
    ELSE LET x == CHOOSE y \in S : TRUE IN f[x] + SumFun(f, S \ {x})

\* the rate table of the claim: level 1..5 -> percent
ClaimRate == <<10, 5, 3, 2, 1>>

\* C1: every wallet always has balance >= 0, locked_balance >= 0 and
\* balance >= locked_balance, whatever ledger operations have run.
C1_NoNegativeBalances ==
    \A u \in Users, wt \in WalletTypes :
        /\ wallets[u][wt].balance >= 0
        /\ wallets[u][wt].locked_balance >= 0
        /\ wallets[u][wt].balance >= wallets[u][wt].locked_balance

\* C6: a purchase succeeds only if the available balance (balance minus
\* locked_balance) of the available_fund wallet covers the amount.
C6_PurchaseNeedsAvailable ==
    [][(last'.op = "purchase" /\ last'.ok)
        => available_balance(wallets[last'.user]["available_fund"]) >= last'.amount]_vars

\* C4 as stated: a successful purchase of amount A pays every one of the k
\* upline ancestors of the buyer A * r_i / 100, and nobody else anything.
C4_Original ==
    [][(last'.op = "purchase" /\ last'.ok)
        => \A r \in Users :
              UserCommissionBalance(wallets', r) - UserCommissionBalance(wallets, r)
              = SumFun([e \in UplineEdges(referrals, last'.user) |->
                           IF e.referrer_id = r
                           THEN RoundDiv(last'.amount * ClaimRate[e.level], 100) ELSE 0],
                       UplineEdges(referrals, last'.user))]_vars

\* C4 amended: a successful purchase of amount A pays A * r_i / 100 to each
\* upline ancestor whose account is active, nothing to an inactive ancestor
\* and nothing to anybody else; the total paid is the sum over the active ones.
C4_CommissionToActiveAncestors ==
    [][(last'.op = "purchase" /\ last'.ok)
        => LET up == UplineEdges(referrals, last'.user)
               due == [e \in up |-> IF users[e.referrer_id].is_active
                                    THEN RoundDiv(last'.amount * ClaimRate[e.level], 100)
                                    ELSE 0]
               paid == [r \in Users |-> UserCommissionBalance(wallets', r)
                                        - UserCommissionBalance(wallets, r)]
           IN  /\ \A r \in Users :
                     paid[r] = SumFun([e \in up |-> IF e.referrer_id = r THEN due[e] ELSE 0], up)
               /\ SumFun(paid, Users) = SumFun(due, up)]_vars

\* a buyer with an active and an inactive ancestor has just purchased
C4_Witness ==
    /\ last.op = "purchase" /\ last.ok
    /\ \E e1, e2 \in UplineEdges(referrals, last.user) :
          /\ users[e1.referrer_id].is_active /\ e1.total_commission_earned > 0
          /\ ~users[e2.referrer_id].is_active

\* C7: a purchase that any validation rejects stores nothing: wallets,
\* positions, audit rows, incomes, referral edges and users are unchanged.
C7_RejectedPurchaseStoresNothing ==
    [][(last'.op = "purchase" /\ ~last'.ok) => UNCHANGED persistent]_vars

\* a purchase has just been rejected for the daily ceiling
C7_Witness ==
    last.op = "purchase" /\ ~last.ok /\ last.reason = "daily_limit"

\* C8: a successful purchase of A on day T debits available_fund by exactly A
\* and adds one position: ACTIVE, amount_invested A, nothing paid,
\* returns_start_date T + 1, maturity_date = returns_start_date + duration_days.
C8_PurchaseEffect ==
    [][(last'.op = "purchase" /\ last'.ok)
        => LET u == last'.user
               i == Len(investments')
           IN  /\ wallets'[u]["available_fund"].balance
                    = wallets[u]["available_fund"].balance - last'.amount
               /\ Len(investments') = Len(investments) + 1
               /\ SubSeq(investments', 1, Len(investments)) = investments
               /\ investments'[i].user_id = u
               /\ investments'[i].status = "ACTIVE"
               /\ investments'[i].amount_invested = last'.amount
               /\ investments'[i].total_returns_paid = 0
               /\ investments'[i].returns_start_date = today + 1
               /\ investments'[i].maturity_date
                    = investments'[i].returns_start_date
                      + packages[investments'[i].package_id].duration_days]_vars

\* a purchase has just succeeded
C8_Witness ==
    /\ last.op = "purchase" /\ last.ok /\ last.amount = 30000
    /\ investments[last.id].status = "ACTIVE"

InvestmentRows(i) == {k \in DOMAIN returns : returns[k].investment_id = i}

C3_SecondRunIsNoOp ==
    [][(last'.op = "daily_returns" /\ last'.id = 2)
        => UNCHANGED <<investments, wallets, returns>>]_vars

\* a run has directly followed a run that credited a position on this date
C3_Witness ==
    /\ last.op = "daily_returns" /\ last.id = 2
    /\ \E k \in DOMAIN returns : returns[k].return_date = today
    /\ \E i \in DOMAIN investments : investments[i].last_return_date = today

\* UserInvestment.is_eligible_for_return_today (both dates are set by the purchase)
is_eligible_for_return_today(inv, day) ==
    /\ inv.status = "ACTIVE"
    /\ inv.returns_start_date # NoDate /\ inv.returns_start_date <= day
    /\ inv.maturity_date # NoDate /\ inv.maturity_date > day
    /\ (inv.last_return_date = NoDate \/ inv.last_return_date < day)

\* C9: the accrual run for date D credits a position only if the position was
\* ACTIVE with returns_start_date <= D < maturity_date and last_return_date
\* null or before D when the run selected it.
C9_CreditOnlyIfEligible ==
    [][(last'.op = "daily_returns")
        => \A i \in DOMAIN investments :
              (investments'[i].total_returns_paid # investments[i].total_returns_paid
               \/ InvestmentRows(i)' # InvestmentRows(i))
              => /\ investments[i].status = "ACTIVE"
                 /\ investments[i].returns_start_date <= today
                 /\ investments[i].maturity_date > today
                 /\ (investments[i].last_return_date = NoDate
                     \/ investments[i].last_return_date < today)
                 /\ is_eligible_for_return_today(investments[i], today)]_vars

\* an accrual run has just credited a position on the last day of its term
C9_Witness ==
    /\ last.op = "daily_returns"
    /\ \E i \in DOMAIN investments :
          /\ investments[i].last_return_date = today
          /\ investments[i].maturity_date = today + 1
          /\ \E k \in InvestmentRows(i) : returns[k].return_date = today

SessionsOf(u) == {p \in Procs : sessions[p].user_id = u}

RECURSIVE CountInvestments(_, _)
CountInvestments(invs, u) ==
    IF invs = <<>> THEN 0
    ELSE (IF Head(invs).user_id = u THEN 1 ELSE 0) + CountInvestments(Tail(invs), u)

\* C5: when two (or more) concurrent purchases of the same user, each for the
\* whole balance of the available_fund wallet, have all finished, exactly one
\* has succeeded, the others were rejected for insufficient funds, the wallet
\* holds 0 and the user has exactly one position.
C5_ExactlyOnePurchaseSucceeds ==
    \A u \in Users :
        (/\ Cardinality(SessionsOf(u)) >= 2
         /\ \A p \in SessionsOf(u) :
               sessions[p].pc = "done" /\ sessions[p].amount = opening[u])
        => /\ Cardinality({p \in SessionsOf(u) : sessions[p].result = "ok"}) = 1
           /\ \A p \in SessionsOf(u) : sessions[p].result \in {"ok", "insufficient"}
           /\ wallets[u]["available_fund"].balance = 0
           /\ CountInvestments(investments, u) = 1

\* two requests of one user for the whole balance have both finished
C5_Witness ==
    \E u \in Users : \E p, q \in SessionsOf(u) :
        /\ p # q
        /\ \A r \in SessionsOf(u) : sessions[r].pc = "done" /\ sessions[r].amount = opening[u]
        /\ sessions[p].result = "ok" /\ sessions[q].result = "insufficient"

C13_FailureIsIsolated ==
    [][(last'.op = "daily_returns_raising")
        => LET f == last'.id
               new == {k \in DOMAIN returns' : k > Len(returns)}
               credited == [u \in Users |->
                   SumFun([k \in new |->
                              IF investments[returns'[k].investment_id].user_id = u
                              THEN returns'[k].return_amount ELSE 0], new)]
           IN  /\ investments'[f].total_returns_paid = investments[f].total_returns_paid
               /\ investments'[f].last_return_date = investments[f].last_return_date
               /\ \A k \in DOMAIN returns : returns'[k] = returns[k]
               /\ \A k \in new : returns'[k].investment_id # f
               /\ \A u \in Users :
                     /\ wallets'[u]["total_gain"].balance
                          = wallets[u]["total_gain"].balance + credited[u]
                     /\ wallets'[u]["total_income"].balance
                          = wallets[u]["total_income"].balance + credited[u]
                     /\ \A wt \in {"available_fund", "level_bonus", "total_referral"} :
                           wallets'[u][wt] = wallets[u][wt]
                     /\ credited[u] = 0 => (audit'[u] = audit[u] /\ incomes'[u] = incomes[u])
               /\ \A j \in DOMAIN investments :
                     (j # f /\ is_eligible_for_return_today(investments[j], today)
                      /\ returns_remaining(investments[j], packages) > 0)
                     => /\ investments'[j].last_return_date = today
                        /\ \E k \in new : returns'[k].investment_id = j
               /\ is_eligible_for_return_today(investments'[f], today)]_vars

SettleOps == {"settle_available_fund", "settle_keep_invested", "settle_other"}

\* C14 as stated: a position's status changes only from ACTIVE to MATURED (by
\* the sweep of an accrual run or by force-maturity) and from ACTIVE to
\* CANCELLED (by the settlement), and a CANCELLED position keeps its status.
C14_Original ==
    [][\A i \in DOMAIN investments :
          investments'[i].status # investments[i].status
          => \/ /\ investments[i].status = "ACTIVE" /\ investments'[i].status = "MATURED"
                /\ last'.op \in {"daily_returns", "force_mature"}
             \/ /\ investments[i].status = "ACTIVE" /\ investments'[i].status = "CANCELLED"
                /\ last'.op \in SettleOps]_vars

\* C14 amended: a position's status changes only from ACTIVE to MATURED (by the
\* sweep of an accrual run or by force-maturity) and from MATURED to CANCELLED
\* (by the settlement); a CANCELLED position keeps its status.
C14_StatusTransitions ==
    [][\A i \in DOMAIN investments :
          investments'[i].status # investments[i].status
          => \/ /\ investments[i].status = "ACTIVE" /\ investments'[i].status = "MATURED"
                /\ last'.op \in {"daily_returns", "force_mature"}
             \/ /\ investments[i].status = "MATURED" /\ investments'[i].status = "CANCELLED"
                /\ last'.op \in SettleOps /\ last'.id = i]_vars

\* a position matured by the sweep has been settled, another one was matured
\* by force-maturity
C14_Witness ==
    /\ last.op \in SettleOps /\ last.ok
    /\ investments[last.id].status = "CANCELLED"
    /\ investments[last.id].maturity_date <= today
    /\ \E j \in DOMAIN investments :
          investments[j].status = "MATURED" /\ investments[j].maturity_date > today

\* C15: a settlement request for a position that is not MATURED (ACTIVE or
\* already CANCELLED) is rejected and changes no position and no wallet; a
\* settlement that succeeds finds the position MATURED and leaves it CANCELLED,
\* so a position is settled at most once.
C15_SettlementNeedsMatured ==
    [][(last'.op \in SettleOps)
        => /\ investments[last'.id].status # "MATURED"
              => (~last'.ok /\ UNCHANGED <<investments, wallets>>)
           /\ last'.ok
              => /\ investments[last'.id].status = "MATURED"
                 /\ investments'[last'.id].status = "CANCELLED"
                 /\ \A j \in DOMAIN investments :
                       j # last'.id => investments'[j] = investments[j]]_vars

\* a second settlement of a settled position has just been rejected
C15_Witness ==
    /\ last.op = "settle_available_fund" /\ ~last.ok /\ last.reason = "not_matured"
    /\ last.amount = 0
    /\ investments[last.id].status = "CANCELLED"

\* C16: a settlement request with disposition available_fund and a fee percent
\* f in 0..100 for a MATURED position of principal P adds exactly
\* P - P * f / 100 to the owner's available_fund balance and leaves the
\* position CANCELLED.
C16_SettlementAmount ==
    [][(/\ last'.op = "settle_available_fund"
        /\ investments[last'.id].status = "MATURED"
        /\ last'.amount >= 0 /\ last'.amount <= 100)
        => LET P == investments[last'.id].amount_invested
               u == investments[last'.id].user_id
           IN  /\ wallets'[u]["available_fund"].balance
                    = wallets[u]["available_fund"].balance
                      + P - RoundDiv(P * last'.amount, 100)
               /\ investments'[last'.id].status = "CANCELLED"]_vars

\* C17: the total_investment of every user equals the sum of amount_invested
\* over the user's ACTIVE and MATURED positions, wherever it is read; a
\* settlement with keep_invested changes no wallet; and a settlement under
\* either disposition lowers the owner's total_investment by the principal.
C17_TotalInvestmentDerived ==
    [][/\ \A u \in Users :
             reported_total_investment(users', u) = get_total_investment(investments', u)
       /\ (last'.op = "settle_keep_invested" /\ last'.ok) => wallets' = wallets
       /\ (last'.op \in SettleOps /\ last'.ok)
          => get_total_investment(investments', last'.user)
               = get_total_investment(investments, last'.user)
                 - investments[last'.id].amount_invested]_vars

\* the two parts of C17 about the settlement, for the total that
\* User.get_total_investment computes
C17_SettlementDropsDerivedTotal ==
    [][/\ (last'.op = "settle_keep_invested" /\ last'.ok) => wallets' = wallets
       /\ (last'.op \in SettleOps /\ last'.ok)
          => get_total_investment(investments', last'.user)
               = get_total_investment(investments, last'.user)
                 - investments[last'.id].amount_invested
       /\ (last'.op = "purchase" /\ last'.ok)
          => get_total_investment(investments', last'.user)
               = get_total_investment(investments, last'.user) + last'.amount
       /\ (last'.op \notin SettleOps \cup {"purchase"})
          => \A u \in Users :
                get_total_investment(investments', u) = get_total_investment(investments, u)]_vars

\* C18: when a daily accrual run on date D has completed, no position with
\* maturity_date <= D is ACTIVE; the sweep that ends the run changes no wallet
\* and no total_returns_paid: a position it matures was not credited by the
\* run, and the wallets changed only by the returns the run credited.
C18_SweepAfterAccrual ==
    [][(last'.op = "daily_returns")
        => LET new == {k \in DOMAIN returns' : k > Len(returns)}
               credited == [u \in Users |->
                   SumFun([k \in new |->
                              IF investments[returns'[k].investment_id].user_id = u
                              THEN returns'[k].return_amount ELSE 0], new)]
               swept == update_investment_statuses(Tables, today)
           IN  /\ \A i \in DOMAIN investments :
                     /\ investments'[i].maturity_date <= today
                        => investments'[i].status # "ACTIVE"
                     /\ (investments[i].status = "ACTIVE" /\ investments'[i].status = "MATURED")
                        => /\ investments'[i].total_returns_paid
                                = investments[i].total_returns_paid
                           /\ investments[i].maturity_date <= today
                     /\ swept.inv[i].total_returns_paid = investments[i].total_returns_paid
               /\ swept.w = wallets
               /\ \A u \in Users :
                     /\ wallets'[u]["total_gain"].balance
                          = wallets[u]["total_gain"].balance + credited[u]
                     /\ wallets'[u]["available_fund"] = wallets[u]["available_fund"]]_vars

\* a run on the maturity date of a position that was credited on the last day
\* of its term has ended, and the position is MATURED
C18_Witness ==
    /\ last.op = "daily_returns"
    /\ \E i \in DOMAIN investments :
          /\ investments[i].maturity_date = today
          /\ investments[i].status = "MATURED"
          /\ investments[i].last_return_date = today - 1
          /\ investments[i].total_returns_paid > 0

\* C19: create_referral_chain ends for every stored sponsor configuration,
\* cyclic sponsor pointers included, and gives the new user at most max_levels
\* edges, with pairwise distinct referrers and the levels 1, 2, ... in order:
\* level 1 is the sponsor, level k + 1 the stored sponsor of the level k referrer.
C19_ChainBounded ==
    (last.op = "register" /\ last.ok)
    => LET E == {e \in referrals : e.referred_id = last.user}
           n == Cardinality(E)
       IN  /\ n <= max_levels
           /\ {e.level : e \in E} = 1..n
           /\ Cardinality({e.referrer_id : e \in E}) = n
           /\ \A e \in E :
                 /\ e.level = 1 => e.referrer_id = users[last.user].sponsor_id
                 /\ \A f \in E : f.level = e.level + 1
                       => f.referrer_id = users[e.referrer_id].sponsor_id

\* a registration under a sponsor whose stored sponsor pointers run in a cycle
\* of two users: the walk has stopped at the sponsor it had already visited
C19_Witness ==
    /\ last.op = "register" /\ last.ok
    /\ last.id # NoUser
    /\ users[last.id].sponsor_id # NoUser
    /\ users[users[last.id].sponsor_id].sponsor_id = last.id
    /\ users[last.id].sponsor_id # last.id
    /\ Cardinality({e \in referrals : e.referred_id = last.user}) = 2

\* C20: for each upline edge paid during a purchase of amount A, the commission
\* A * rate[level] / 100 is credited to the referrer's total_referral wallet
\* when the level is 1 and to the referrer's level_bonus wallet when it is
\* 2..5, and the edge's total_commission_earned equals the sum of the
\* commissions credited through the edge: it starts at 0, grows in a purchase
\* by exactly the amount credited to that wallet, and changes in no other step.
C20_CommissionRouting ==
    /\ \A e \in referrals : e.total_commission_earned = 0
    /\ [][LET SameEdge(e, f) == /\ f.referrer_id = e.referrer_id
                                /\ f.referred_id = e.referred_id
                                /\ f.level = e.level
              Earned(e) == LET f == CHOOSE x \in referrals' : SameEdge(e, x)
                           IN  f.total_commission_earned - e.total_commission_earned
              Credited(r, wt) == wallets'[r][wt].balance - wallets[r][wt].balance
          IN  /\ \A e \in referrals : \E f \in referrals' : SameEdge(e, f)
              /\ Cardinality(referrals') = Cardinality(referrals)
              /\ \A e \in referrals :
                    IF last'.op = "purchase" /\ last'.ok /\ e.referred_id = last'.user
                       /\ e.is_active /\ users[e.referrer_id].is_active
                    THEN /\ Earned(e) = RoundDiv(last'.amount * ClaimRate[e.level], 100)
                         /\ Earned(e) > 0
                         /\ Credited(e.referrer_id,
                                     IF e.level = 1 THEN "total_referral" ELSE "level_bonus")
                              = Earned(e)
                         /\ Credited(e.referrer_id,
                                     IF e.level = 1 THEN "level_bonus" ELSE "total_referral")
                              = 0
                    ELSE Earned(e) = 0]_vars

\* a purchase has just paid a level 1 edge into total_referral and a level 2
\* edge into level_bonus
C20_Witness ==
    /\ last.op = "purchase" /\ last.ok
    /\ \E e1, e2 \in UplineEdges(referrals, last.user) :
          /\ e1.level = 1 /\ e1.total_commission_earned > 0
          /\ wallets[e1.referrer_id]["total_referral"].balance = e1.total_commission_earned
          /\ e2.level = 2 /\ e2.total_commission_earned > 0
          /\ wallets[e2.referrer_id]["level_bonus"].balance = e2.total_commission_earned

\* C21: if commission distribution raises during a purchase, the purchase is
\* not rolled back: the commit stores the debit of the available_fund wallet
\* by the amount, the new ACTIVE position and the audit record of the purchase.
C21_PurchaseKeptWhenDistributionRaises ==
    [][(last'.op = "purchase_distribution_raises")
        => /\ wallets'[last'.user]["available_fund"].balance
                = wallets[last'.user]["available_fund"].balance - last'.amount
           /\ Len(investments') = Len(investments) + 1
           /\ investments'[Len(investments')].status = "ACTIVE"
           /\ investments'[Len(investments')].user_id = last'.user
           /\ investments'[Len(investments')].amount_invested = last'.amount
           /\ audit'[last'.user]["available_fund"]
                = audit[last'.user]["available_fund"] + 1]_vars

\* C22: every committed change of a wallet's balance comes, in the same
\* commit, with an audit transaction record for that user and wallet type.
C22_BalanceChangeIsAudited ==
    [][\A u \in Users, wt \in WalletTypes :
          wallets'[u][wt].balance # wallets[u][wt].balance
          => audit'[u][wt] > audit[u][wt]]_vars

\* C23: for every user, after any sequence of credits, the balance of the
\* total_income wallet equals the sum of the amounts credited to the user's
\* total_gain, level_bonus and total_referral wallets, also when the credited
\* wallet was created at credit time. (No step of SpecIncome debits an income
\* wallet, so the amounts credited to a wallet add up to its balance.)
C23_TotalIncomeIsSumOfCredits ==
    \A u \in Users :
        wallets[u]["total_income"].balance
        = wallets[u]["total_gain"].balance + wallets[u]["level_bonus"].balance
          + wallets[u]["total_referral"].balance

PendingLocks(u, wt) ==
    LET ids == {i \in DOMAIN transactions :
                   /\ transactions[i].status = "PENDING"
                   /\ transactions[i].transaction_type = "WITHDRAWAL"
                   /\ transactions[i].user_id = u
                   /\ transactions[i].wallet_type = wt}
    IN  SumFun([i \in ids |-> transactions[i].amount + transactions[i].fee], ids)


\* C24: a run of cleanup_expired_assignments leaves every assignment that was
\* active with expires_at in the past inactive and its pooled wallet
\* AVAILABLE, leaves every pooled wallet that was IN_USE without an active
\* assignment AVAILABLE, and does not change an active assignment that has
\* not expired.
C24_CleanupReleases ==
    [][last'.op = "cleanup_expired_assignments" =>
         /\ \A a \in DOMAIN assignments :
               IF assignments[a].is_active /\ assignments[a].expires_at < now
               THEN /\ ~assignments'[a].is_active
                    /\ pooled_wallets'[assignments[a].wallet_id].status = "AVAILABLE"
               ELSE assignments[a].is_active => assignments'[a] = assignments[a]
         /\ \A w \in PoolWallets :
               (pooled_wallets[w].status = "IN_USE" /\ ActiveOn(assignments, w) = {})
               => pooled_wallets'[w].status = "AVAILABLE"]_vars

\* a clean-up run has released an expired assignment and a stuck wallet
C24_Witness ==
    /\ last.op = "cleanup_expired_assignments"
    /\ last.id >= 1
    /\ last.amount > last.id
    /\ \E a \in DOMAIN assignments :
          /\ ~assignments[a].is_active /\ assignments[a].expires_at < now
          /\ pooled_wallets[assignments[a].wallet_id].status = "AVAILABLE"

\* C25: for every wallet, in every reachable state, locked_balance equals the
\* sum of amount + fee over the wallet's withdrawals that are still PENDING.
C25_LockedIsPendingWithdrawals ==
    \A u \in Users, wt \in WalletTypes :
        wallets[u][wt].locked_balance = PendingLocks(u, wt)

\* C26: approving a PENDING withdrawal whose amount + fee is the lock on the
\* wallet, the wallet untouched since the request, succeeds and lowers the
\* balance by exactly amount + fee.
C26_ApproveUsesTheLock ==
    [][\A id \in DOMAIN transactions :
          LET txn == transactions[id]
              u == txn.user_id
              w == wallets[u][txn.wallet_type]
          IN  (/\ last'.op = "approve" /\ last'.id = id
               /\ txn.status = "PENDING" /\ txn.transaction_type = "WITHDRAWAL"
               /\ w.locked_balance = txn.amount + txn.fee
               /\ w.balance = opening[u])
              => /\ last'.ok
                 /\ wallets'[u][txn.wallet_type].balance = w.balance - (txn.amount + txn.fee)]_vars

\* C27: each transaction leaves PENDING at most once, also when approve,
\* reject and cancel requests for it run concurrently: a request that succeeds
\* finds the stored transaction PENDING when it commits, a deposit is credited
\* at most once and a withdrawal is debited at most once.
C27_LeavesPendingOnce ==
    [][\A id \in DOMAIN transactions :
          LET txn == transactions[id]
              was == wallets[txn.user_id][txn.wallet_type].balance
              after == wallets'[txn.user_id][txn.wallet_type].balance
          IN  /\ txn.status # "PENDING" => transactions'[id].status = txn.status
              /\ (txn.status # "PENDING" /\ DOMAIN transactions = {id}) => after = was]_vars

\* C28: the principal of a position is returned to the available_fund wallet
\* at most once, also when two settlement requests for it run concurrently:
\* every credit of an available_fund wallet takes a MATURED position of the
\* user to CANCELLED, so the second request credits nothing.
C28_PrincipalReturnedOnce ==
    [][\A u \in Users :
          wallets'[u]["available_fund"].balance > wallets[u]["available_fund"].balance
          => \E i \in DOMAIN investments :
                /\ investments[i].user_id = u
                /\ investments[i].status = "MATURED"
                /\ investments'[i].status = "CANCELLED"
                /\ wallets'[u]["available_fund"].balance
                     = wallets[u]["available_fund"].balance + investments[i].amount_invested]_vars


C30_OneActiveAssignmentPerWallet ==
    \A w \in PoolWallets :
        /\ Cardinality(ActiveOn(assignments, w)) <= 1
        /\ ActiveOn(assignments, w) # {} => pooled_wallets[w].status = "IN_USE"

====
